---------------------------- MODULE Spec2Model ----------------------------
(***************************************************************************)
(* StageLP-WSOP: staged optimisation models of a water-supply portfolio.   *)
(*                                                                         *)
(* Three of the repository's programs are modelled, each a Python module   *)
(* that builds a symbolic Pyomo model from a JSON document when it is      *)
(* imported and offers two callbacks to the stochastic-programming runner: *)
(*   two_stage_concrete.py    (program "two_stage_concrete")               *)
(*   three_stage_scenario.py  (program "three_stage_scenario")             *)
(*   three_stage.py           (program "three_stage")                      *)
(*                                                                         *)
(* A Python dict is a sequence of [k, v] pairs with distinct keys, in      *)
(* insertion order (json.load keeps the document's order, and the code     *)
(* iterates dicts in that order).  Numbers of the JSON document are        *)
(* naturals; probabilities are counted in units of 1/PUnit.                *)
(***************************************************************************)
EXTENDS Integers, Sequences, FiniteSets, TLC

VARIABLES
    prog,        \* which of the three modules is being run
    data,        \* the module-level `data` (json.load of the data file)
    stage,       \* "start", then what importing the module ended in
    model,       \* the module-level symbolic `model`
    SHORTAGE_Q,  \* the module-level SHORTAGE_Q dict
    SHORTAGE_P,  \* the module-level SHORTAGE_P dict
    instances,   \* the instances pysp_instance_creation_callback returned
    tree,        \* the graph pysp_scenario_tree_model_callback returned last
    raised,      \* the exception the last callback call ended in, or "none"
    sol          \* what the solver was last handed and what it found

vars == <<prog, data, stage, model, SHORTAGE_Q, SHORTAGE_P, instances, tree,
          raised, sol>>

(***************************************************************************)
(* Bounds of the model.                                                    *)
(***************************************************************************)
PUnit == 2      \* a probability p is the natural p/PUnit
MaxInst == 3    \* instances kept in `instances`
MaxQ == 2       \* largest shortage quantity of the two-stage callback data

NoException == "none"

(***************************************************************************)
(* Python dicts.                                                           *)
(***************************************************************************)
EmptyDict == << >>

KeySet(d) == {d[n].k : n \in 1..Len(d)}

Has(d, key) == key \in KeySet(d)

Get(d, key) == d[CHOOSE n \in 1..Len(d) : d[n].k = key].v

\* d[key] = value
SetItem(d, key, value) ==
    IF Has(d, key)
    THEN [n \in 1..Len(d) |-> IF d[n].k = key THEN [k |-> key, v |-> value]
                                             ELSE d[n]]
    ELSE Append(d, [k |-> key, v |-> value])

\* d.update(e)
RECURSIVE update(_, _)
update(d, e) ==
    IF e = << >> THEN d
    ELSE update(SetItem(d, Head(e).k, Head(e).v), Tail(e))

\* The dicts whose keys are the keys of `keys` that lie in S, in the order of
\* `keys`, with the values f gives them.
MkDict(keys, S, f) ==
    LET In(key) == key \in S
        sel == SelectSeq(keys, In)
    IN  [n \in 1..Len(sel) |-> [k |-> sel[n], v |-> f[sel[n]]]]

SeqSet(s) == {s[n] : n \in 1..Len(s)}

\* Every dict over a part of `keys` (in that order) with values in Vals.
DictsOver(keys, Vals) ==
    UNION {{MkDict(keys, S, f) : f \in [S -> Vals]} : S \in SUBSET SeqSet(keys)}

\* The dict over all of `keys` with the values of f.
FullDict(keys, f) == MkDict(keys, SeqSet(keys), f)

\* Every dict over a part of `keys` whose values are those of f.
SubDicts(keys, f) == {MkDict(keys, S, f) : S \in SUBSET SeqSet(keys)}

RECURSIVE SumSeq(_)
SumSeq(s) == IF s = << >> THEN 0 ELSE Head(s) + SumSeq(Tail(s))

\* sum(d.values())
SumValues(d) == SumSeq([n \in 1..Len(d) |-> d[n].v])

(***************************************************************************)
(* networkx.DiGraph: `node` maps a node's name to its attributes, `edge`   *)
(* maps a pair <<u, v>> to the edge's weight.                              *)
(***************************************************************************)
EmptyFn == [z \in {} |-> 0]

DiGraph == [node |-> EmptyFn, edge |-> EmptyFn]

\* The attributes of a node that add_edge had to create.
NoAttrs == [cost |-> "", variables |-> << >>, derived_variables |-> << >>]

\* g.add_node(n, cost=.., variables=.., derived_variables=..): a node that is
\* already there has its attributes overwritten.
add_node(g, n, cost, variables, derived_variables) ==
    [g EXCEPT !.node = (n :> [cost |-> cost, variables |-> variables,
                              derived_variables |-> derived_variables]) @@ @]

\* g.add_edge(u, v, weight=w): an edge that is already there has its weight
\* overwritten; missing end nodes are created.
add_edge(g, u, v, w) ==
    [node |-> g.node @@ (u :> NoAttrs) @@ (v :> NoAttrs),
     edge |-> (<<u, v>> :> w) @@ g.edge]

ce1 == "CostExpressions[1]"
ce2 == "CostExpressions[2]"
ce3 == "CostExpressions[3]"

\* What a callback hands back: the exception it raised, or its value.
Raise(exc) == [raised |-> exc]
Return(value) == [raised |-> NoException, value |-> value]

\* Param.store_values(v) with a scalar v: every index gets v.
store_values(param, v) == [i \in DOMAIN param |-> v]

\* model.clone(): a deep copy, which shares nothing with the original.
clone(m) == m

(***************************************************************************)
(* two_stage_concrete.py                                                   *)
(***************************************************************************)
\* The keys of `data` the module-level code subscripts.
two_keys == {"LT_MAX", "LT_QF", "C_LT", "ST_MAX", "C_ST", "SHORTAGE_Q",
             "SHORTAGE_P"}

\* Whether building the symbolic model raises KeyError: a key of `data` is
\* missing, or a constraint or cost rule subscripts a missing index.
two_KeyError(d) ==
    \/ ~(two_keys \subseteq KeySet(d))
    \/ LET LT == KeySet(Get(d, "LT_MAX"))
           ST == KeySet(Get(d, "ST_MAX"))
       IN  \/ ~(LT \subseteq KeySet(Get(d, "LT_QF")))      \* MeetShortage_rule
           \/ ~({"LS_RETRO"} \subseteq LT)                 \* ShortTermRestrict_rule
           \/ ~({"LS_RESTRICT"} \subseteq ST)
           \/ ~({"OPTION"} \subseteq LT)                   \* ShortTermOption_rule
           \/ ~({"EX_OPTION"} \subseteq ST)
           \/ ~(LT \subseteq KeySet(Get(d, "C_LT")))       \* ComputeFirstStageCost_rule
           \/ ~(ST \subseteq KeySet(Get(d, "C_ST")))       \* ComputeSecondStageCost_rule

\* The symbolic model after the module-level code.
two_model(d) ==
    [LT |-> KeySet(Get(d, "LT_MAX")),
     LT_MAX |-> Get(d, "LT_MAX"),
     LT_QF |-> Get(d, "LT_QF"),
     C_LT |-> Get(d, "C_LT"),
     ST |-> KeySet(Get(d, "ST_MAX")),
     ST_MAX |-> Get(d, "ST_MAX"),
     C_ST |-> Get(d, "C_ST"),
     SHORTAGE |-> {"SH"},
     SHORTAGE_Q |-> [i \in {"SH"} |-> 0]]

\* The callback with store_values applied to `model` instead of `instance`.
two_callback_stores_in_model(m, shortage_q, scenario_name, node_names) ==
    LET instance == clone(m)
    IN  IF ~Has(shortage_q, scenario_name)
        THEN [model |-> m, ret |-> Raise("KeyError")]
        ELSE [model |-> [m EXCEPT !.SHORTAGE_Q =
                            store_values(@, Get(shortage_q, scenario_name))],
              ret |-> Return(instance)]

\* pysp_instance_creation_callback(scenario_name, node_names): the symbolic
\* model after the call, and the instance returned.
two_pysp_instance_creation_callback(m, shortage_q, scenario_name, node_names) ==
    LET instance == clone(m)
    IN  IF ~Has(shortage_q, scenario_name)
        THEN [model |-> m, ret |-> Raise("KeyError")]
        ELSE [model |-> m,
              ret |-> Return([instance EXCEPT !.SHORTAGE_Q =
                          store_values(@, Get(shortage_q, scenario_name))])]

\* The loop of pysp_scenario_tree_model_callback over the scenarios still to
\* be added.
RECURSIVE two_tree_loop(_, _, _)
two_tree_loop(g, todo, shortage_p) ==
    IF todo = << >> THEN Return(g)
    ELSE LET shortage == Head(todo).k
             g1 == add_node(g, shortage, ce2, <<"ST_Q[*]">>, << >>)
         IN  IF ~Has(shortage_p, shortage) THEN Raise("KeyError")
             ELSE two_tree_loop(
                      add_edge(g1, "Root", shortage, Get(shortage_p, shortage)),
                      Tail(todo), shortage_p)

two_pysp_scenario_tree_model_callback(shortage_q, shortage_p) ==
    two_tree_loop(add_node(DiGraph, "Root", ce1, <<"LT_ACTION[*]">>, << >>),
                  shortage_q, shortage_p)

(***************************************************************************)
(* three_stage_scenario.py                                                 *)
(***************************************************************************)
scen_keys == {"LT_MAX", "LT_QF", "C_LT", "MT_MAX", "C_MT", "ST_MAX", "C_ST"}

\* The flattening that keeps the value of the first projection that lists a
\* scenario:
\*     for projection in nested:
\*         for s in nested[projection]: flat.setdefault(s, nested[projection][s])
RECURSIVE flatten_keeps_first(_, _)
flatten_keeps_first(flat, nested) ==
    IF nested = << >> THEN flat
    ELSE LET New(e) == ~Has(flat, e.k)
         IN  flatten_keeps_first(flat \o SelectSeq(Head(nested).v, New), Tail(nested))

\* The module-level flattening of a nested {projection: {scenario: value}}:
\*     for projection in nested: flat.update(nested[projection])
RECURSIVE flatten(_, _)
flatten(flat, nested) ==
    IF nested = << >> THEN flat
    ELSE flatten(update(flat, Head(nested).v), Tail(nested))

\* The exception that building the symbolic model and the module-level
\* stochastic data ends in, in the order the module's statements run.
scen_import(d) ==
    IF ~(scen_keys \subseteq KeySet(d)) THEN "KeyError"
    ELSE LET LT == KeySet(Get(d, "LT_MAX"))
             MT == KeySet(Get(d, "MT_MAX"))
             ST == KeySet(Get(d, "ST_MAX"))
         IN  IF \/ ~(LT \subseteq KeySet(Get(d, "LT_QF")))   \* MeetShortage_rule
                \/ ~(LT \subseteq MT)
                \/ ~({"LS_RETRO"} \subseteq LT \cap MT)      \* MidTermLSRetro_rule
                \/ ~({"LS_RESTRICT"} \subseteq ST)           \* ShortTermRestrict_rule
             THEN "KeyError"
             ELSE IF Get(Get(d, "LT_QF"), "LS_RETRO") = 0
             THEN "ZeroDivisionError"
             ELSE IF \/ ~({"EX_LT_OPTION"} \subseteq ST)     \* LTOption_rule
                     \/ ~({"OPTION"} \subseteq LT)
                     \/ ~({"EX_MT_OPTION"} \subseteq ST)     \* MTOption_rule
                     \/ ~(LT \subseteq KeySet(Get(d, "C_LT")))
                     \/ ~(LT \subseteq KeySet(Get(d, "C_MT")))
                     \/ ~(ST \subseteq KeySet(Get(d, "C_ST")))
                     \/ ~Has(d, "SHORTAGE_Q")
                     \/ ~Has(d, "SHORTAGE_P")
             THEN "KeyError"
             ELSE NoException

scen_model(d) ==
    [LT |-> KeySet(Get(d, "LT_MAX")),
     LT_MAX |-> Get(d, "LT_MAX"),
     LT_QF |-> Get(d, "LT_QF"),
     C_LT |-> Get(d, "C_LT"),
     MT |-> KeySet(Get(d, "MT_MAX")),
     MT_MAX |-> Get(d, "MT_MAX"),
     C_MT |-> Get(d, "C_MT"),
     ST |-> KeySet(Get(d, "ST_MAX")),
     ST_MAX |-> Get(d, "ST_MAX"),
     C_ST |-> Get(d, "C_ST"),
     SHORTAGE |-> {"SH"},
     SHORTAGE_Q |-> [i \in {"SH"} |-> 0]]

scen_pysp_instance_creation_callback(m, shortage_q, scenario_name, node_names) ==
    LET instance == clone(m)
    IN  IF ~Has(shortage_q, scenario_name)
        THEN [model |-> m, ret |-> Raise("KeyError")]
        ELSE [model |-> m,
              ret |-> Return([instance EXCEPT !.SHORTAGE_Q =
                          store_values(@, Get(shortage_q, scenario_name))])]

\* The inner loop with every shortage hung under Root, as in the two-stage
\* program.
RECURSIVE scen_shortage_loop_from_root(_, _, _)
scen_shortage_loop_from_root(g, projection, todo) ==
    IF todo = << >> THEN g
    ELSE LET shortage == Head(todo).k
             g1 == add_node(g, shortage, ce3, <<"ST_Q[*]">>, << >>)
         IN  scen_shortage_loop_from_root(
                 add_edge(g1, "Root", shortage, Head(todo).v), projection, Tail(todo))

\* The inner loop of the tree callback: the shortages of one projection.
RECURSIVE scen_shortage_loop(_, _, _)
scen_shortage_loop(g, projection, todo) ==
    IF todo = << >> THEN g
    ELSE LET shortage == Head(todo).k
             g1 == add_node(g, shortage, ce3, <<"ST_Q[*]">>, << >>)
         IN  scen_shortage_loop(add_edge(g1, projection, shortage, Head(todo).v),
                                projection, Tail(todo))

\* The outer loop: the projections of data['PROJECTION_P'] still to be added.
RECURSIVE scen_projection_loop(_, _, _)
scen_projection_loop(g, todo, d) ==
    IF todo = << >> THEN Return(g)
    ELSE LET projection == Head(todo).k
             g1 == add_node(g, projection, ce2, <<"MT_EXP[*]">>, << >>)
             g2 == add_edge(g1, "Root", projection, Head(todo).v)
         IN  IF ~Has(d, "SHORTAGE_P") THEN Raise("KeyError")
             ELSE IF ~Has(Get(d, "SHORTAGE_P"), projection) THEN Raise("KeyError")
             ELSE scen_projection_loop(
                      scen_shortage_loop(g2, projection,
                                         Get(Get(d, "SHORTAGE_P"), projection)),
                      Tail(todo), d)

scen_pysp_scenario_tree_model_callback(d) ==
    IF ~Has(d, "PROJECTION_P") THEN Raise("KeyError")
    ELSE scen_projection_loop(
             add_node(DiGraph, "Root", ce1, <<"LT_ACTION[*]">>, << >>),
             Get(d, "PROJECTION_P"), d)

(***************************************************************************)
(* three_stage.py                                                          *)
(***************************************************************************)
\* The keys of one entry of data['LT_EXP'] the module-level code subscripts.
exp_keys == {"permit_cost", "p", "multiplier", "exp_max",
             "baseline_op_min_ratio", "baseline_op_cost", "variable_op_cost"}

\* The exception that constructing the Param `name` ends in: its initialiser
\* subscripts data[name][i] for every member i of the index set.
stoch_Param(d, name, index) ==
    IF index = {} THEN NoException
    ELSE IF ~Has(d, name) THEN "KeyError"
    ELSE IF ~(index \subseteq KeySet(Get(d, name))) THEN "KeyError"
    ELSE NoException

\* The exception that constructing LongTermExp ends in: the rule runs site by
\* site and divides by data['LT_EXP'][i]['exp_max'].
RECURSIVE stoch_LongTermExp_construct(_)
stoch_LongTermExp_construct(EXP) ==
    IF EXP = << >> THEN NoException
    ELSE IF ~Has(Head(EXP).v, "exp_max") THEN "KeyError"
    ELSE IF Get(Head(EXP).v, "exp_max") = 0 THEN "ZeroDivisionError"
    ELSE stoch_LongTermExp_construct(Tail(EXP))

\* The exception that building the symbolic model and the module-level
\* stochastic data ends in, in the order the module's statements run.
stoch_import(d) ==
    IF \/ ~({"LT_MAX", "LT_EXP", "ST_MAX", "SHORT_Q_MAX"} \subseteq KeySet(d))
       \/ ~Has(Get(d, "SHORT_Q_MAX"), "P3")                  \* model.SHORT
    THEN "KeyError"
    ELSE LET LT == KeySet(Get(d, "LT_MAX"))
             ST == KeySet(Get(d, "ST_MAX"))
             EXP == Get(d, "LT_EXP")
         IN  IF \/ stoch_Param(d, "LT_MIN", LT) # NoException
                \/ stoch_Param(d, "C_LT", LT) # NoException
                \/ stoch_Param(d, "ST_MIN", ST) # NoException
                \/ stoch_Param(d, "C_ST", ST) # NoException
                \/ \E n \in 1..Len(EXP) :                     \* LT_EXP_PERMIT_COST
                      ~Has(EXP[n].v, "permit_cost")
                \/ \E n \in 1..Len(EXP) :                     \* scale_marginal
                      ~({"p", "multiplier"} \subseteq KeySet(EXP[n].v))
                \/ ~({"RETRO"} \subseteq LT)                  \* MeetShortage_rule
             THEN "KeyError"
             ELSE IF stoch_LongTermExp_construct(EXP) # NoException
             THEN stoch_LongTermExp_construct(EXP)
             ELSE IF \/ \E n \in 1..Len(EXP) :
                           ~(exp_keys \subseteq KeySet(EXP[n].v))
                     \/ ~({"RESTRICT", "OPTION"} \subseteq ST) \* ShortTermRestrict_rule
                     \/ ~({"OPTION"} \subseteq LT)            \* LTOption_rule
                     \/ ~Has(d, "SHORTAGE_Q")
                     \/ ~Has(d, "SHORTAGE_P")
             THEN "KeyError"
             ELSE NoException

stoch_model(d) ==
    LET LT == KeySet(Get(d, "LT_MAX"))
        ST == KeySet(Get(d, "ST_MAX"))
        EXP == KeySet(Get(d, "LT_EXP"))
        SHORT == KeySet(Get(Get(d, "SHORT_Q_MAX"), "P3"))
    IN  [LT |-> LT, LT_EXP |-> EXP, ST |-> ST, SHORTAGE |-> {"SH"},
         SHORT |-> SHORT,
         LT_MIN |-> [i \in LT |-> Get(Get(d, "LT_MIN"), i)],
         LT_MAX |-> [i \in LT |-> Get(Get(d, "LT_MAX"), i)],
         C_LT |-> [i \in LT |-> Get(Get(d, "C_LT"), i)],
         ST_MIN |-> [i \in ST |-> Get(Get(d, "ST_MIN"), i)],
         ST_MAX |-> [i \in ST |-> Get(Get(d, "ST_MAX"), i)],
         C_ST |-> [i \in ST |-> Get(Get(d, "C_ST"), i)],
         LT_EXP_PERMIT_COST |->
             [i \in EXP |-> Get(Get(Get(d, "LT_EXP"), i), "permit_cost")],
         SHORTAGE_Q |-> [i \in {"SH"} |-> 0],
         SHORT_Q_MAX |-> [i \in SHORT |-> 0],
         SHORT_COST |-> [i \in SHORT |-> 0]]

\* data[name][node_names[1]][i] for every i of instance.SHORT, or KeyError.
stoch_node_values(d, name, node, SHORT) ==
    IF ~Has(d, name) THEN Raise("KeyError")
    ELSE IF ~Has(Get(d, name), node) THEN Raise("KeyError")
    ELSE IF ~(SHORT \subseteq KeySet(Get(Get(d, name), node)))
    THEN Raise("KeyError")
    ELSE Return([i \in SHORT |-> Get(Get(Get(d, name), node), i)])

\* The callback with the overrides applied to `model` instead of `instance`.
stoch_callback_stores_in_model(m, d, shortage_q, scenario_name, node_names) ==
    LET instance == clone(m)
        q_max == stoch_node_values(d, "SHORT_Q_MAX", node_names[2], instance.SHORT)
        cost == stoch_node_values(d, "SHORT_COST", node_names[2], instance.SHORT)
    IN  IF ~Has(shortage_q, scenario_name)
        THEN [model |-> m, ret |-> Raise("KeyError")]
        ELSE IF instance.SHORT # {} /\ (q_max.raised # NoException
                                        \/ cost.raised # NoException)
        THEN [model |-> m, ret |-> Raise("KeyError")]
        ELSE [model |-> [m EXCEPT
                          !.SHORTAGE_Q = store_values(@, Get(shortage_q, scenario_name)),
                          !.SHORT_Q_MAX = IF instance.SHORT = {} THEN @ ELSE q_max.value,
                          !.SHORT_COST = IF instance.SHORT = {} THEN @ ELSE cost.value],
              ret |-> Return(instance)]

stoch_pysp_instance_creation_callback(m, d, shortage_q, scenario_name, node_names) ==
    LET instance == clone(m)
        q_max == stoch_node_values(d, "SHORT_Q_MAX", node_names[2], instance.SHORT)
        cost == stoch_node_values(d, "SHORT_COST", node_names[2], instance.SHORT)
    IN  IF ~Has(shortage_q, scenario_name)
        THEN [model |-> m, ret |-> Raise("KeyError")]
        ELSE IF instance.SHORT # {} /\ (q_max.raised # NoException
                                        \/ cost.raised # NoException)
        THEN [model |-> m, ret |-> Raise("KeyError")]
        ELSE [model |-> m,
              ret |-> Return([instance EXCEPT
                          !.SHORTAGE_Q = store_values(@, Get(shortage_q, scenario_name)),
                          !.SHORT_Q_MAX = IF instance.SHORT = {} THEN @ ELSE q_max.value,
                          !.SHORT_COST = IF instance.SHORT = {} THEN @ ELSE cost.value])]

\* The inner loop with its edges drawn from the shortage to the projection.
RECURSIVE stoch_shortage_loop_reversed(_, _, _)
stoch_shortage_loop_reversed(g, projection, todo) ==
    IF todo = << >> THEN g
    ELSE LET shortage == Head(todo).k
             g1 == add_node(g, shortage, ce3,
                            <<"ST_ACTION[*]", "SHORT_ACTION[*]", "EXP_VOP_ACTION[*]">>,
                            << >>)
         IN  stoch_shortage_loop_reversed(
                 add_edge(g1, shortage, projection, Head(todo).v), projection, Tail(todo))

RECURSIVE stoch_shortage_loop(_, _, _)
stoch_shortage_loop(g, projection, todo) ==
    IF todo = << >> THEN g
    ELSE LET shortage == Head(todo).k
             g1 == add_node(g, shortage, ce3,
                            <<"ST_ACTION[*]", "SHORT_ACTION[*]", "EXP_VOP_ACTION[*]">>,
                            << >>)
         IN  stoch_shortage_loop(add_edge(g1, projection, shortage, Head(todo).v),
                                 projection, Tail(todo))

RECURSIVE stoch_projection_loop(_, _, _)
stoch_projection_loop(g, todo, d) ==
    IF todo = << >> THEN Return(g)
    ELSE LET projection == Head(todo).k
             g1 == add_node(g, projection, ce2,
                            <<"EXP_ACTION[*]", "EXP_BOP_ACTION[*]">>, << >>)
             g2 == add_edge(g1, "Root", projection, Head(todo).v)
         IN  IF ~Has(d, "SHORTAGE_P") THEN Raise("KeyError")
             ELSE IF ~Has(Get(d, "SHORTAGE_P"), projection) THEN Raise("KeyError")
             ELSE stoch_projection_loop(
                      stoch_shortage_loop(g2, projection,
                                          Get(Get(d, "SHORTAGE_P"), projection)),
                      Tail(todo), d)

\* The callback reading the projections with data.get('PROJECTION_P', {}).
stoch_tree_callback_default_projections(d) ==
    IF ~Has(d, "PROJECTION_P")
    THEN Return(add_node(DiGraph, "Root", ce1,
                         <<"LT_ACTION[*]", "LT_EXP_ACTION[*]", "LT_EXP_PERMIT_ACTION[*]">>,
                         <<"LT_EXP_COST[*]">>))
    ELSE stoch_projection_loop(
             add_node(DiGraph, "Root", ce1,
                      <<"LT_ACTION[*]", "LT_EXP_ACTION[*]", "LT_EXP_PERMIT_ACTION[*]">>,
                      <<"LT_EXP_COST[*]">>),
             Get(d, "PROJECTION_P"), d)

stoch_pysp_scenario_tree_model_callback(d) ==
    IF ~Has(d, "PROJECTION_P") THEN Raise("KeyError")
    ELSE stoch_projection_loop(
             add_node(DiGraph, "Root", ce1,
                      <<"LT_ACTION[*]", "LT_EXP_ACTION[*]", "LT_EXP_PERMIT_ACTION[*]">>,
                      <<"LT_EXP_COST[*]">>),
             Get(d, "PROJECTION_P"), d)

(***************************************************************************)
(* The JSON documents the callbacks are run on.                            *)
(***************************************************************************)
\* The dict literal {keys[1]: vals[1], ...}.
Lit(keys, vals) == [n \in 1..Len(keys) |-> [k |-> keys[n], v |-> vals[n]]]

\* A fraction n/d of the JSON document.
Frac(n, d) == <<n, d>>

Projections == <<"P1", "P3">>

\* The scenario names a document may list under a projection.
ScenariosOf(projection) ==
    IF projection = "P1" THEN <<"S1", "S2">> ELSE <<"S2", "S3">>

Scenarios == {"S1", "S2", "S3"}

\* The nested dicts {projection: inner}, over a part of Projections in either
\* order, whose inner dict for projection p is a member of Inner(p).
NestedOver(Inner(_)) ==
    LET one(p) == {Lit(<<p>>, <<e>>) : e \in Inner(p)}
    IN  {EmptyDict} \cup one("P1") \cup one("P3")
        \cup {a \o b : a \in one("P1"), b \in one("P3")}
        \cup {b \o a : a \in one("P1"), b \in one("P3")}

\* The same, in the order of Projections only.
NestedInOrder(Inner(_)) ==
    LET one(p) == {Lit(<<p>>, <<e>>) : e \in Inner(p)}
    IN  {EmptyDict} \cup one("P1") \cup one("P3")
        \cup {a \o b : a \in one("P1"), b \in one("P3")}

\* Shortage quantities, different for every (projection, scenario).
QTable == [P1 |-> [S1 |-> 1, S2 |-> 2], P3 |-> [S2 |-> 3, S3 |-> 4]]

\* Caps and costs of the shortage buckets, different for every (projection,
\* bucket).
Buckets == <<"B1", "B2">>
QMaxTable == [P1 |-> [B1 |-> 5, B2 |-> 6], P3 |-> [B1 |-> 7, B2 |-> 8]]
CostTable == [P1 |-> [B1 |-> 9, B2 |-> 10], P3 |-> [B1 |-> 11, B2 |-> 12]]

StdProjectionP == Lit(Projections, <<1, PUnit - 1>>)
StdShortageP ==
    Lit(Projections, <<Lit(<<"S1", "S2">>, <<1, PUnit - 1>>), Lit(<<"S3">>, <<PUnit>>)>>)
StdShortageQ ==
    Lit(Projections, <<FullDict(<<"S1", "S2">>, QTable["P1"]),
                       FullDict(<<"S3">>, QTable["P3"])>>)

\* The deterministic part of a two-stage document.
StdTwo ==
    Lit(<<"LT_MAX", "LT_QF", "C_LT", "ST_MAX", "C_ST">>,
        <<Lit(<<"LS_RETRO", "OPTION">>, <<2, 1>>),
          Lit(<<"LS_RETRO", "OPTION">>, <<1, 1>>),
          Lit(<<"LS_RETRO", "OPTION">>, <<1, 2>>),
          Lit(<<"LS_RESTRICT", "EX_OPTION">>, <<2, 1>>),
          Lit(<<"LS_RESTRICT", "EX_OPTION">>, <<3, 2>>)>>)

StdScen ==
    Lit(<<"LT_MAX", "LT_QF", "C_LT", "MT_MAX", "C_MT", "ST_MAX", "C_ST">>,
        <<Lit(<<"LS_RETRO", "OPTION">>, <<2, 1>>),
          Lit(<<"LS_RETRO", "OPTION">>, <<1, 1>>),
          Lit(<<"LS_RETRO", "OPTION">>, <<1, 2>>),
          Lit(<<"LS_RETRO", "OPTION">>, <<Frac(1, 1), Frac(1, 1)>>),
          Lit(<<"LS_RETRO", "OPTION">>, <<1, 1>>),
          Lit(<<"LS_RESTRICT", "EX_LT_OPTION", "EX_MT_OPTION">>, <<2, 1, 1>>),
          Lit(<<"LS_RESTRICT", "EX_LT_OPTION", "EX_MT_OPTION">>, <<3, 2, 2>>)>>)

StdSite ==
    Lit(<<"permit_cost", "p", "multiplier", "exp_max", "baseline_op_min_ratio",
          "baseline_op_cost", "variable_op_cost">>,
        <<1, 2, 1, 2, Frac(1, 2), 1, 1>>)

StdStoch ==
    Lit(<<"LT_MAX", "LT_MIN", "C_LT", "ST_MAX", "ST_MIN", "C_ST", "LT_EXP">>,
        <<Lit(<<"RETRO", "OPTION">>, <<2, 1>>),
          Lit(<<"RETRO", "OPTION">>, <<0, 0>>),
          Lit(<<"RETRO", "OPTION">>, <<1, 2>>),
          Lit(<<"RESTRICT", "OPTION">>, <<2, 1>>),
          Lit(<<"RESTRICT", "OPTION">>, <<0, 0>>),
          Lit(<<"RESTRICT", "OPTION">>, <<3, 2>>),
          Lit(<<"E1">>, <<StdSite>>)>>)

\* Documents that differ in their probabilities and in the names of their
\* tree nodes; the three-stage ones give one shortage quantity.
TreeData(program) ==
    LET InnerP(p) == DictsOver(ScenariosOf(p), 1..PUnit)
        OneQ == Lit(<<"P1">>, <<FullDict(<<"S1">>, QTable["P1"])>>)
    IN  IF program = "two_stage_concrete"
        THEN {StdTwo \o Lit(<<"SHORTAGE_Q", "SHORTAGE_P">>, <<q, sp>>) :
                  q \in SubDicts(<<"S1", "S2">>, QTable["P1"]),
                  sp \in DictsOver(<<"S1", "S2">>, 1..PUnit)}
        ELSE {(IF program = "three_stage_scenario" THEN StdScen
               ELSE StdStoch \o Lit(<<"SHORT_Q_MAX", "SHORT_COST">>,
                                    <<Lit(Projections,
                                          <<FullDict(Buckets, QMaxTable["P1"]),
                                            FullDict(Buckets, QMaxTable["P3"])>>),
                                      Lit(Projections,
                                          <<FullDict(Buckets, CostTable["P1"]),
                                            FullDict(Buckets, CostTable["P3"])>>)>>))
              \o Lit(<<"SHORTAGE_Q", "SHORTAGE_P", "PROJECTION_P">>, <<OneQ, sp, pp>>) :
                  sp \in NestedInOrder(InnerP),
                  pp \in DictsOver(Projections, 1..PUnit)}

\* Documents that differ in their shortage quantities, caps and costs.
InstData(program) ==
    LET InnerQ(p) == SubDicts(ScenariosOf(p), QTable[p])
        InnerMax(p) == SubDicts(Buckets, QMaxTable[p])
        InnerCost(p) == SubDicts(Buckets, CostTable[p])
        \* The cost dict with the keys of the cap dict qm.
        CostLike(qm) ==
            [n \in 1..Len(qm) |->
                [k |-> qm[n].k,
                 v |-> [j \in 1..Len(qm[n].v) |->
                           [k |-> qm[n].v[j].k,
                            v |-> CostTable[qm[n].k][qm[n].v[j].k]]]]]
        FullCost == Lit(Projections, <<FullDict(Buckets, CostTable["P1"]),
                                       FullDict(Buckets, CostTable["P3"])>>)
    IN  IF program = "two_stage_concrete"
        THEN {StdTwo \o Lit(<<"SHORTAGE_Q", "SHORTAGE_P">>,
                            <<q, Lit(<<"S1", "S2">>, <<1, PUnit - 1>>)>>) :
                  q \in DictsOver(<<"S1", "S2">>, 1..MaxQ)}
        ELSE IF program = "three_stage_scenario"
        THEN {StdScen \o Lit(<<"SHORTAGE_Q", "SHORTAGE_P", "PROJECTION_P">>,
                             <<q, StdShortageP, StdProjectionP>>) :
                  q \in NestedOver(InnerQ)}
        ELSE {StdStoch \o Lit(<<"SHORT_Q_MAX", "SHORT_COST">>, <<qm, c>>)
              \o Lit(<<"SHORTAGE_Q", "SHORTAGE_P", "PROJECTION_P">>,
                     <<q, StdShortageP, StdProjectionP>>) :
                  q \in NestedInOrder(InnerQ),
                  qm \in NestedInOrder(InnerMax),
                  c \in {FullCost}} \cup
             {StdStoch \o Lit(<<"SHORT_Q_MAX", "SHORT_COST">>, <<qm, CostLike(qm)>>)
              \o Lit(<<"SHORTAGE_Q", "SHORTAGE_P", "PROJECTION_P">>,
                     <<q, StdShortageP, StdProjectionP>>) :
                  q \in NestedInOrder(InnerQ),
                  qm \in NestedInOrder(InnerMax)}

Programs == {"two_stage_concrete", "three_stage_scenario", "three_stage"}

(***************************************************************************)
(* The state before the module is imported.                                *)
(***************************************************************************)
NoModel == [SHORTAGE_Q |-> EmptyFn]
NoTree == [returned |-> FALSE, g |-> DiGraph]
NoSol == [status |-> "unsolved"]

Fresh ==
    /\ stage = "start"
    /\ model = NoModel
    /\ SHORTAGE_Q = EmptyDict
    /\ SHORTAGE_P = EmptyDict
    /\ instances = << >>
    /\ tree = NoTree
    /\ raised = NoException
    /\ sol = NoSol

InitTree ==
    /\ prog \in Programs
    /\ data \in TreeData(prog)
    /\ Fresh

InitInst ==
    /\ prog \in Programs
    /\ data \in InstData(prog)
    /\ Fresh

(***************************************************************************)
(* Importing the module: the module-level code.                            *)
(***************************************************************************)
Import_two ==
    /\ prog = "two_stage_concrete" /\ stage = "start"
    /\ IF two_KeyError(data)
       THEN /\ stage' = "KeyError"
            /\ UNCHANGED <<model, SHORTAGE_Q, SHORTAGE_P>>
       ELSE /\ stage' = "built"
            /\ model' = two_model(data)
            /\ SHORTAGE_Q' = Get(data, "SHORTAGE_Q")
            /\ SHORTAGE_P' = Get(data, "SHORTAGE_P")
    /\ UNCHANGED <<prog, data, instances, tree, raised, sol>>

Import_scen ==
    /\ prog = "three_stage_scenario" /\ stage = "start"
    /\ IF scen_import(data) # NoException
       THEN /\ stage' = scen_import(data)
            /\ UNCHANGED <<model, SHORTAGE_Q, SHORTAGE_P>>
       ELSE /\ stage' = "built"
            /\ model' = scen_model(data)
            /\ SHORTAGE_Q' = flatten(EmptyDict, Get(data, "SHORTAGE_Q"))
            /\ SHORTAGE_P' = flatten(EmptyDict, Get(data, "SHORTAGE_P"))
    /\ UNCHANGED <<prog, data, instances, tree, raised, sol>>

Import_stoch ==
    /\ prog = "three_stage" /\ stage = "start"
    /\ IF stoch_import(data) # NoException
       THEN /\ stage' = stoch_import(data)
            /\ UNCHANGED <<model, SHORTAGE_Q, SHORTAGE_P>>
       ELSE /\ stage' = "built"
            /\ model' = stoch_model(data)
            /\ SHORTAGE_Q' = flatten(EmptyDict, Get(data, "SHORTAGE_Q"))
            /\ SHORTAGE_P' = flatten(EmptyDict, Get(data, "SHORTAGE_P"))
    /\ UNCHANGED <<prog, data, instances, tree, raised, sol>>

(***************************************************************************)
(* The runner's calls of the two callbacks.                                *)
(***************************************************************************)
\* The state after a call of pysp_instance_creation_callback that ended in r.
Created(r, scenario_name, node_names) ==
    /\ model' = r.model
    /\ raised' = r.ret.raised
    /\ instances' = IF r.ret.raised = NoException
                    THEN Append(instances, [scenario_name |-> scenario_name,
                                            node_names |-> node_names,
                                            m |-> r.ret.value])
                    ELSE instances
    /\ UNCHANGED <<prog, data, stage, SHORTAGE_Q, SHORTAGE_P, tree, sol>>

CreateInstance_two ==
    /\ prog = "two_stage_concrete" /\ stage = "built"
    /\ Len(instances) < MaxInst
    /\ \E scenario_name \in {"S1", "S2"} :
          LET node_names == <<"Root", scenario_name>>
          IN  Created(two_pysp_instance_creation_callback(
                          model, SHORTAGE_Q, scenario_name, node_names),
                      scenario_name, node_names)

CreateInstance_scen ==
    /\ prog = "three_stage_scenario" /\ stage = "built"
    /\ Len(instances) < MaxInst
    /\ \E scenario_name \in Scenarios, projection \in SeqSet(Projections) :
          LET node_names == <<"Root", projection, scenario_name>>
          IN  Created(scen_pysp_instance_creation_callback(
                          model, SHORTAGE_Q, scenario_name, node_names),
                      scenario_name, node_names)

CreateInstance_stoch ==
    /\ prog = "three_stage" /\ stage = "built"
    /\ Len(instances) < MaxInst
    /\ \E scenario_name \in Scenarios, projection \in SeqSet(Projections) :
          LET node_names == <<"Root", projection, scenario_name>>
          IN  Created(stoch_pysp_instance_creation_callback(
                          model, data, SHORTAGE_Q, scenario_name, node_names),
                      scenario_name, node_names)

\* The state after a call of pysp_scenario_tree_model_callback that ended in r.
Built(r) ==
    /\ raised' = r.raised
    /\ tree' = IF r.raised = NoException THEN [returned |-> TRUE, g |-> r.value]
               ELSE tree
    /\ UNCHANGED <<prog, data, stage, model, SHORTAGE_Q, SHORTAGE_P, instances, sol>>

BuildTree_two ==
    /\ prog = "two_stage_concrete" /\ stage = "built"
    /\ Built(two_pysp_scenario_tree_model_callback(SHORTAGE_Q, SHORTAGE_P))

BuildTree_scen ==
    /\ prog = "three_stage_scenario" /\ stage = "built"
    /\ Built(scen_pysp_scenario_tree_model_callback(data))

BuildTree_stoch ==
    /\ prog = "three_stage" /\ stage = "built"
    /\ Built(stoch_pysp_scenario_tree_model_callback(data))

NextCallbacks ==
    \/ Import_two \/ Import_scen \/ Import_stoch
    \/ CreateInstance_two \/ CreateInstance_scen \/ CreateInstance_stoch
    \/ BuildTree_two \/ BuildTree_scen \/ BuildTree_stoch

SpecTree == InitTree /\ [][NextCallbacks]_vars

SpecInst == InitInst /\ [][NextCallbacks]_vars

(***************************************************************************)
(* Properties of the scenario tree.                                        *)
(***************************************************************************)
RECURSIVE SumOver(_, _)
SumOver(S, f) ==
    IF S = {} THEN 0
    ELSE LET x == CHOOSE y \in S : TRUE IN f[x] + SumOver(S \ {x}, f)

OutEdges(g, u) == {e \in DOMAIN g.edge : e[1] = u}
InEdges(g, v) == {e \in DOMAIN g.edge : e[2] = v}
OutWeight(g, u) == SumOver(OutEdges(g, u), g.edge)

\* Every node with an outgoing edge has outgoing weights that sum to 1.
WeightsSumToOne(g) ==
    \A u \in DOMAIN g.node : OutEdges(g, u) # {} => OutWeight(g, u) = PUnit

\* The probabilities of the document are normalised where the tree callback
\* reads them, and no projection is called Root.
Normalised ==
    IF prog = "two_stage_concrete"
    THEN SumSeq([n \in 1..Len(SHORTAGE_Q) |->
                    IF Has(SHORTAGE_P, SHORTAGE_Q[n].k)
                    THEN Get(SHORTAGE_P, SHORTAGE_Q[n].k) ELSE 0]) = PUnit
    ELSE LET pp == Get(data, "PROJECTION_P")
             sp == Get(data, "SHORTAGE_P")
         IN  /\ SumValues(pp) = PUnit
             /\ "Root" \notin KeySet(pp)
             /\ \A p \in KeySet(pp) : Has(sp, p) /\ SumValues(Get(sp, p)) = PUnit

\* C1 as claimed: in every graph the tree callback returns, the weights of
\* the outgoing edges of every non-leaf node sum to 1.
C1_AlwaysSumToOne == tree.returned => WeightsSumToOne(tree.g)

\* C1, amended: the callback copies the weights of the document, so in the
\* graph it returns the outgoing weights of every non-leaf node sum to 1
\* whenever the document's probabilities are normalised (and no projection
\* is called Root).
C1_SumToOneIfNormalised ==
    (tree.returned /\ Normalised) => WeightsSumToOne(tree.g)

C1_Witness ==
    /\ tree.returned /\ Normalised /\ prog = "three_stage"
    /\ Cardinality(OutEdges(tree.g, "Root")) = 2
    /\ Cardinality(OutEdges(tree.g, "P1")) = 2
    /\ Cardinality(OutEdges(tree.g, "P3")) = 1

\* The node names of the document, by level.
ProjectionNames == KeySet(Get(data, "PROJECTION_P"))
ShortageNames(p) ==
    IF Has(Get(data, "SHORTAGE_P"), p) THEN KeySet(Get(Get(data, "SHORTAGE_P"), p))
    ELSE {}
AllShortageNames == UNION {ShortageNames(p) : p \in ProjectionNames}

\* A rooted tree of exactly three levels: Root, the projections, the
\* shortage leaves.
ThreeLevelTree(g) ==
    LET P == ProjectionNames
        S == AllShortageNames
    IN  /\ DOMAIN g.node = {"Root"} \cup P \cup S
        /\ "Root" \notin P \cup S /\ P \cap S = {}
        /\ P # {}
        /\ InEdges(g, "Root") = {}
        /\ \A p \in P : /\ InEdges(g, p) = {<<"Root", p>>}
                        /\ OutEdges(g, p) # {}
        /\ \A s \in S : /\ OutEdges(g, s) = {}
                        /\ Cardinality(InEdges(g, s)) = 1
                        /\ \E p \in P : InEdges(g, s) = {<<p, s>>}
        /\ DOMAIN g.edge = {<<"Root", p>> : p \in P}
                             \cup UNION {OutEdges(g, p) : p \in P}

\* The node names of the document are all different, there is a projection,
\* and every projection lists a shortage.
DistinctNames ==
    LET P == ProjectionNames
    IN  /\ P # {}
        /\ "Root" \notin P \cup AllShortageNames
        /\ P \cap AllShortageNames = {}
        /\ \A p \in P : ShortageNames(p) # {}
        /\ \A p, q \in P : p # q => ShortageNames(p) \cap ShortageNames(q) = {}

ThreeStage == prog \in {"three_stage_scenario", "three_stage"}

\* C5 as claimed: for every document, the graph the three-stage tree
\* callbacks return is a rooted tree of exactly three levels.
C5_AlwaysThreeLevelTree ==
    (ThreeStage /\ tree.returned) => ThreeLevelTree(tree.g)

\* C5, amended: the graph is a rooted three-level tree whenever the document
\* names at least one projection, lists at least one shortage under every
\* projection, and gives all nodes different names.
C5_ThreeLevelTreeIfDistinct ==
    (ThreeStage /\ tree.returned /\ DistinctNames) => ThreeLevelTree(tree.g)

C5_Witness ==
    /\ prog = "three_stage_scenario" /\ tree.returned /\ DistinctNames
    /\ Cardinality(DOMAIN tree.g.node) = 6

(***************************************************************************)
(* Properties of the instances.                                            *)
(***************************************************************************)
\* The parameters pysp_instance_creation_callback overrides.
Overridden(m) ==
    IF prog = "three_stage"
    THEN <<m.SHORTAGE_Q, m.SHORT_Q_MAX, m.SHORT_COST>>
    ELSE <<m.SHORTAGE_Q>>

\* C2: two instances created for the same scenario name and node path have
\* the same overridden parameters, whatever was created in between.
C2_Idempotent ==
    \A a, b \in 1..Len(instances) :
        (/\ instances[a].scenario_name = instances[b].scenario_name
         /\ instances[a].node_names = instances[b].node_names)
        => Overridden(instances[a].m) = Overridden(instances[b].m)

C2_Witness ==
    /\ Len(instances) = 3 /\ prog = "three_stage"
    /\ instances[1].scenario_name = instances[3].scenario_name
    /\ instances[1].node_names = instances[3].node_names
    /\ instances[2].scenario_name # instances[1].scenario_name
    /\ instances[2].node_names[2] # instances[1].node_names[2]
    /\ instances[2].m # instances[1].m

\* The symbolic model as the module-level code built it.
BaseModel ==
    IF prog = "two_stage_concrete" THEN two_model(data) ELSE scen_model(data)

\* C3: in the two-stage and the three-stage scenario program the base model
\* stays as built (SHORTAGE_Q['SH'] = 0), every instance returned so far has
\* the SHORTAGE_Q of its own scenario, and equals the base model in
\* everything but SHORTAGE_Q.
C3_OnlyShortageOverridden ==
    (prog \in {"two_stage_concrete", "three_stage_scenario"} /\ stage = "built")
    => /\ model = BaseModel
       /\ model.SHORTAGE_Q["SH"] = 0
       /\ \A n \in 1..Len(instances) :
             /\ instances[n].m.SHORTAGE_Q["SH"]
                    = Get(SHORTAGE_Q, instances[n].scenario_name)
             /\ [instances[n].m EXCEPT !.SHORTAGE_Q = model.SHORTAGE_Q] = model

C3_Witness ==
    /\ prog = "two_stage_concrete" /\ Len(instances) = 3
    /\ instances[1].scenario_name # instances[2].scenario_name
    /\ instances[1].m.SHORTAGE_Q["SH"] # instances[2].m.SHORTAGE_Q["SH"]
    /\ instances[1].m.SHORTAGE_Q["SH"] > 0

\* The buckets the document lists under a projection.
BucketsAt(name, projection) ==
    IF Has(Get(data, name), projection)
    THEN KeySet(Get(Get(data, name), projection)) ELSE {}

\* C4 as claimed: an instance of the three-stage stochastic program has, for
\* every bucket the document lists at the projection node of its path, the
\* cap and the cost the document gives there, and its scenario's SHORTAGE_Q.
C4_FullyOverwritten ==
    prog = "three_stage" =>
    \A n \in 1..Len(instances) :
        LET inst == instances[n]
            node == inst.node_names[2]
        IN  /\ inst.m.SHORTAGE_Q["SH"] = Get(SHORTAGE_Q, inst.scenario_name)
            /\ \A i \in BucketsAt("SHORT_Q_MAX", node) :
                  /\ i \in DOMAIN inst.m.SHORT_Q_MAX
                  /\ inst.m.SHORT_Q_MAX[i]
                         = Get(Get(Get(data, "SHORT_Q_MAX"), node), i)
            /\ \A i \in BucketsAt("SHORT_COST", node) :
                  /\ i \in DOMAIN inst.m.SHORT_COST
                  /\ inst.m.SHORT_COST[i]
                         = Get(Get(Get(data, "SHORT_COST"), node), i)

(***************************************************************************)
(* Pyomo expressions.  A Var is given a value per index by an assignment;  *)
(* a dict of the document is read by subscripting.                         *)
(***************************************************************************)
\* pyo.quicksum(f[i] for i in DOMAIN f)
quicksum(f) == SumOver(DOMAIN f, f)

\* pyo.sum_product(P, V): the index set is that of the last argument.
sum_product(P, V) == quicksum([i \in DOMAIN V |-> Get(P, i) * V[i]])

\* pyo.sum_product(P, V) of a Param P.
sum_product_fn(P, V) == quicksum([i \in DOMAIN V |-> P[i] * V[i]])

\* The dict d as a function of its keys.
AsFn(d) == [key \in KeySet(d) |-> Get(d, key)]

\* The largest member of a non-empty set of naturals.
MaxOf(S) == CHOOSE a \in S : \A b \in S : b <= a

\* The values a solver is let to try for an indexed Var that the constraints
\* keep between 0 and top[i]: every integer from one below 0 to one past top[i].
Box(top) ==
    LET most == MaxOf({0} \cup {top[i] : i \in DOMAIN top})
    IN  {f \in [DOMAIN top -> (0 - 1)..(most + 1)] :
            \A i \in DOMAIN top : f[i] <= top[i] + 1}

(***************************************************************************)
(* two_stage_concrete.py: constraints and objective.                       *)
(***************************************************************************)
\* MeetShortage_rule with the short-term quantities left out.
two_MeetShortage_without_st(m, x) ==
    sum_product(m.LT_QF, x.LT_ACTION) >= m.SHORTAGE_Q["SH"]

two_MeetShortage_rule(m, x) ==
    LET st_q == quicksum([j \in m.ST |-> x.ST_Q[j]])
    IN  sum_product(m.LT_QF, x.LT_ACTION) + st_q >= m.SHORTAGE_Q["SH"]

two_LongTermMax_rule(m, x, i) == x.LT_ACTION[i] <= Get(m.LT_MAX, i)

two_ShortTermMax_rule(m, x, j) == x.ST_Q[j] <= Get(m.ST_MAX, j)

two_ShortTermRestrict_rule(m, x) ==
    x.ST_Q["LS_RESTRICT"] <= Get(m.LT_MAX, "LS_RETRO") - x.LT_ACTION["LS_RETRO"]

two_ShortTermOption_rule(m, x) == x.ST_Q["EX_OPTION"] <= x.LT_ACTION["OPTION"]

two_ShortTermNonNegativity_rule(m, x, j) == x.ST_Q[j] >= 0

two_LongTermNonNegativity_rule(m, x, i) == x.LT_ACTION[i] >= 0

two_ComputeFirstStageCost_rule(m, x) == sum_product(m.C_LT, x.LT_ACTION)

two_ComputeSecondStageCost_rule(m, x) == sum_product(m.C_ST, x.ST_Q)

two_total_cost_rule(m, x) ==
    two_ComputeFirstStageCost_rule(m, x) + two_ComputeSecondStageCost_rule(m, x)

\* Every constraint of the model holds of x (the indexed bounds are listed
\* first, the sums last).
two_Feasible(m, x) ==
    /\ \A i \in m.LT : two_LongTermMax_rule(m, x, i)
    /\ \A j \in m.ST : two_ShortTermMax_rule(m, x, j)
    /\ \A j \in m.ST : two_ShortTermNonNegativity_rule(m, x, j)
    /\ \A i \in m.LT : two_LongTermNonNegativity_rule(m, x, i)
    /\ two_ShortTermRestrict_rule(m, x)
    /\ two_ShortTermOption_rule(m, x)
    /\ two_MeetShortage_rule(m, x)

\* The assignments that meet the indexed constraints, which bound each
\* variable by itself.  LT_ACTION is integer, ST_Q is tried on the integers
\* (the data are integers, so an optimum lies there); each is tried from one
\* below 0 to one past its maximum.
two_Bounded(m) ==
    LET lts == {lt \in Box(AsFn(m.LT_MAX)) :
                   \A i \in m.LT :
                       /\ two_LongTermMax_rule(m, [LT_ACTION |-> lt], i)
                       /\ two_LongTermNonNegativity_rule(m, [LT_ACTION |-> lt], i)}
        sts == {st \in Box(AsFn(m.ST_MAX)) :
                   \A j \in m.ST :
                       /\ two_ShortTermMax_rule(m, [ST_Q |-> st], j)
                       /\ two_ShortTermNonNegativity_rule(m, [ST_Q |-> st], j)}
    IN  {[LT_ACTION |-> lt, ST_Q |-> st] : lt \in lts, st \in sts}

\* What a solver finds for an instance: a feasible assignment of least
\* Total_Cost_Objective, or that there is none.
two_Solutions(m) ==
    LET F == {x \in two_Bounded(m) : two_Feasible(m, x)}
        costs == {two_total_cost_rule(m, x) : x \in F}
        best == CHOOSE c \in costs : \A e \in costs : c <= e
    IN  IF F = {} THEN {[status |-> "infeasible"]}
        ELSE {[status |-> "optimal", x |-> x, cost |-> best] :
                 x \in {y \in F : two_total_cost_rule(m, y) = best}}

Solve_two ==
    /\ prog = "two_stage_concrete" /\ stage = "built"
    /\ instances # <<>> /\ sol.status = "unsolved"
    /\ LET n == Len(instances)      \* the instance created last
       IN  \E found \in two_Solutions(instances[n].m) : sol' = found @@ [n |-> n]
    /\ UNCHANGED <<prog, data, stage, model, SHORTAGE_Q, SHORTAGE_P, instances,
                   tree, raised>>

(***************************************************************************)
(* The documents the two-stage model is solved on.                         *)
(***************************************************************************)
MaxCap == 2     \* largest capacity of an action
MaxR == 5       \* largest shortage requirement

\* A two-stage document with one scenario S1 of requirement R.
TwoDoc(lt, lt_max, lt_qf, c_lt, st, st_max, c_st, R) ==
    Lit(<<"LT_MAX", "LT_QF", "C_LT", "ST_MAX", "C_ST", "SHORTAGE_Q", "SHORTAGE_P">>,
        <<Lit(lt, lt_max), Lit(lt, lt_qf), Lit(lt, c_lt),
          Lit(st, st_max), Lit(st, c_st),
          Lit(<<"S1">>, <<R>>), Lit(<<"S1">>, <<PUnit>>)>>)

\* One long-term action (max 100, cost 5, yield 1), one short-term action
\* (max 50, cost 20), requirement 80.
TwoMinimalData ==
    {TwoDoc(<<i>>, <<100>>, <<1>>, <<5>>, <<j>>, <<50>>, <<20>>, 80) :
        i \in {"LT1", "LS_RETRO", "OPTION"}, j \in {"ST1", "LS_RESTRICT", "EX_OPTION"}}

\* The same numbers on the actions the constraints name, the option actions
\* having capacity 0.
TwoExample ==
    TwoDoc(<<"LS_RETRO", "OPTION">>, <<100, 0>>, <<1, 1>>, <<5, 5>>,
           <<"LS_RESTRICT", "EX_OPTION">>, <<50, 0>>, <<20, 20>>, 80)

TwoFullData ==
    {TwoDoc(<<"LS_RETRO", "OPTION">>, <<a, b>>, <<qf, 1>>, <<c, 1>>,
            <<"LS_RESTRICT", "EX_OPTION">>, <<e, 1>>, <<2, f>>, R) :
        a \in 0..MaxCap, b \in 0..1, qf \in 1..2, c \in {1, 3},
        e \in 0..MaxCap, f \in {1, 4}, R \in 0..MaxR}

InitTwoStage ==
    /\ prog = "two_stage_concrete"
    /\ data \in TwoMinimalData \cup {TwoExample} \cup TwoFullData
    /\ Fresh

NextTwoStage == Import_two \/ CreateInstance_two \/ Solve_two

SpecTwoStage == InitTwoStage /\ [][NextTwoStage]_vars

(***************************************************************************)
(* C6                                                                      *)
(***************************************************************************)
\* The document has exactly one long-term and one short-term action.
OneActionEach ==
    Len(Get(data, "LT_MAX")) = 1 /\ Len(Get(data, "ST_MAX")) = 1

\* The document has the four actions the constraints name.
NamedActions ==
    /\ {"LS_RETRO", "OPTION"} \subseteq KeySet(Get(data, "LT_MAX"))
    /\ {"LS_RESTRICT", "EX_OPTION"} \subseteq KeySet(Get(data, "ST_MAX"))

LTMAX(i) == Get(Get(data, "LT_MAX"), i)
LTQF(i) == Get(Get(data, "LT_QF"), i)
CLT(i) == Get(Get(data, "C_LT"), i)
STMAX(j) == Get(Get(data, "ST_MAX"), j)
CST(j) == Get(Get(data, "C_ST"), j)
LTs == KeySet(Get(data, "LT_MAX"))
STs == KeySet(Get(data, "ST_MAX"))

\* C_LT*LT_ACTION + C_ST*ST_Q
BlendedCost(x) ==
    SumOver(LTs, [i \in LTs |-> CLT(i) * x.LT_ACTION[i]])
    + SumOver(STs, [j \in STs |-> CST(j) * x.ST_Q[j]])

\* LT_QF*LT_ACTION + ST_Q >= R, 0 <= LT_ACTION <= LT_MAX, 0 <= ST_Q <= ST_MAX
Covers(x, R) ==
    /\ \A i \in LTs : 0 <= x.LT_ACTION[i] /\ x.LT_ACTION[i] <= LTMAX(i)
    /\ \A j \in STs : 0 <= x.ST_Q[j] /\ x.ST_Q[j] <= STMAX(j)
    /\ SumOver(LTs, [i \in LTs |-> LTQF(i) * x.LT_ACTION[i]])
       + SumOver(STs, [j \in STs |-> x.ST_Q[j]]) >= R

\* The two couplings of the short-term actions to the long-term ones.
Coupled(x) ==
    /\ x.ST_Q["LS_RESTRICT"] <= LTMAX("LS_RETRO") - x.LT_ACTION["LS_RETRO"]
    /\ x.ST_Q["EX_OPTION"] <= x.LT_ACTION["OPTION"]

\* The assignments with 0 <= LT_ACTION <= LT_MAX and 0 <= ST_Q <= ST_MAX.
Candidates ==
    {[LT_ACTION |-> lt, ST_Q |-> st] :
        lt \in {f \in Box([i \in LTs |-> LTMAX(i)]) :
                   \A i \in LTs : 0 <= f[i] /\ f[i] <= LTMAX(i)},
        st \in {f \in Box([j \in STs |-> STMAX(j)]) :
                   \A j \in STs : 0 <= f[j] /\ f[j] <= STMAX(j)}}

\* The requirement of the instance that was solved.
Requirement == Get(Get(data, "SHORTAGE_Q"), instances[sol.n].scenario_name)

\* C6 as claimed: from a document with one long-term and one short-term
\* action the model is built, and its optimum is the least C_LT*LT_ACTION +
\* C_ST*ST_Q among the assignments that cover R within their bounds.
C6_MinimalDataOptimum ==
    OneActionEach =>
        /\ stage \in {"start", "built"}
        /\ sol.status = "optimal" =>
              /\ Covers(sol.x, Requirement)
              /\ \A y \in Candidates :
                    Covers(y, Requirement) => BlendedCost(sol.x) <= BlendedCost(y)

\* C6, amended: a document with one action each cannot be built (KeyError);
\* from a document with the long-term actions LS_RETRO and OPTION and the
\* short-term actions LS_RESTRICT and EX_OPTION the model is built, and its
\* optimum is the least C_LT*LT_ACTION + C_ST*ST_Q among the assignments that
\* cover R within their bounds and also keep ST_Q[LS_RESTRICT] <=
\* LT_MAX[LS_RETRO] - LT_ACTION[LS_RETRO] and ST_Q[EX_OPTION] <=
\* LT_ACTION[OPTION]; it is infeasible exactly when there is none.
C6_NamedActionsOptimum ==
    /\ (OneActionEach /\ stage # "start") => stage = "KeyError"
    /\ (NamedActions /\ stage # "start") => stage = "built"
    /\ sol.status = "optimal" =>
          /\ Covers(sol.x, Requirement) /\ Coupled(sol.x)
          /\ sol.cost = BlendedCost(sol.x)
          /\ \A y \in Candidates :
                (Covers(y, Requirement) /\ Coupled(y))
                => sol.cost <= BlendedCost(y)
    /\ sol.status = "infeasible" =>
          \A y \in Candidates : ~(Covers(y, Requirement) /\ Coupled(y))

\* The example of the claim on the named actions: the optimum covers 80 at
\* cost 400.
C6_Witness ==
    /\ data = TwoExample /\ sol.status = "optimal"
    /\ sol.x.LT_ACTION["LS_RETRO"] + sol.x.ST_Q["LS_RESTRICT"] >= 80
    /\ sol.cost = 400

(***************************************************************************)
(* Fractions: <<n, d>> with d > 0 stands for n/d.                          *)
(***************************************************************************)
Abs(n) == IF n < 0 THEN 0 - n ELSE n

RECURSIVE GCD(_, _)
GCD(a, b) == IF b = 0 THEN a ELSE GCD(b, a % b)

\* The fraction in lowest terms.
RNorm(a) ==
    LET g == GCD(Abs(a[1]), a[2])
    IN  <<a[1] \div g, a[2] \div g>>

R(n) == <<n, 1>>
RAdd(a, b) ==
    LET g == GCD(a[2], b[2])
    IN  RNorm(<<a[1] * (b[2] \div g) + b[1] * (a[2] \div g), (a[2] \div g) * b[2]>>)
RSub(a, b) == RAdd(a, <<0 - b[1], b[2]>>)
RMul(a, b) ==
    LET x == RNorm(<<a[1], b[2]>>)
        y == RNorm(<<b[1], a[2]>>)
    IN  RNorm(<<x[1] * y[1], x[2] * y[2]>>)
RDiv(a, b) == RMul(a, <<b[2], b[1]>>)           \* b > 0
\* a <= b, by whole parts first and then by the remainders.
RLe(a, b) ==
    LET fa == a[1] \div a[2]
        fb == b[1] \div b[2]
    IN  IF fa # fb THEN fa < fb
        ELSE (a[1] % a[2]) * b[2] <= (b[1] % b[2]) * a[2]
REq(a, b) == RNorm(a) = RNorm(b)

RECURSIVE RSumOver(_, _)
RSumOver(S, f) ==
    IF S = {} THEN R(0)
    ELSE LET i == CHOOSE j \in S : TRUE IN RAdd(f[i], RSumOver(S \ {i}, f))

\* pyo.quicksum of fractions.
Rquicksum(f) == RSumOver(DOMAIN f, f)

(***************************************************************************)
(* three_stage_scenario.py: constraints and objective.  An assignment x    *)
(* gives LT_ACTION integers and MT_EXP and ST_Q fractions.                 *)
(***************************************************************************)
\* pyo.sum_product(d, f) of a dict of numbers and fractions.
Rsum_product(d, f) == Rquicksum([i \in DOMAIN f |-> RMul(R(Get(d, i)), f[i])])

\* MeetShortage_rule crediting only the exploited yield.
scen_MeetShortage_exploited_only(m, x) ==
    LET mt_q == Rquicksum([i \in m.LT |->
                    RMul(R(Get(m.LT_QF, i) * x.LT_ACTION[i]), x.MT_EXP[i])])
        st_q == Rquicksum([k \in m.ST |-> x.ST_Q[k]])
    IN  RLe(R(m.SHORTAGE_Q["SH"]), RAdd(mt_q, st_q))

\* tot_q of MeetShortage_rule.
scen_tot_q(m, x) ==
    LET lt_q == sum_product(m.LT_QF, x.LT_ACTION)
        mt_q == Rquicksum([i \in m.LT |->
                    RMul(R(Get(m.LT_QF, i) * x.LT_ACTION[i]), x.MT_EXP[i])])
        st_q == Rquicksum([k \in m.ST |-> x.ST_Q[k]])
    IN  RAdd(RAdd(R(lt_q), mt_q), st_q)

scen_MeetShortage_rule(m, x) == RLe(R(m.SHORTAGE_Q["SH"]), scen_tot_q(m, x))

scen_LongTermMax_rule(m, x, i) == x.LT_ACTION[i] <= Get(m.LT_MAX, i)

scen_MidTermMax_rule(m, x, j) == RLe(x.MT_EXP[j], Get(m.MT_MAX, j))

scen_MidTermLSRetro_rule(m, x) ==
    LET lt_retro == x.LT_ACTION["LS_RETRO"]
    IN  RLe(RAdd(RMul(R(lt_retro), x.MT_EXP["LS_RETRO"]), R(lt_retro)),
            R(Get(m.LT_MAX, "LS_RETRO")))

scen_ShortTermMax_rule(m, x, k) == RLe(x.ST_Q[k], R(Get(m.ST_MAX, k)))

\* ShortTermRestrict_rule without the retrofit itself.
scen_ShortTermRestrict_without_retro(m, x) ==
    LET lt_retro == x.LT_ACTION["LS_RETRO"]
        st_q_ == RDiv(x.ST_Q["LS_RESTRICT"], R(Get(m.LT_QF, "LS_RETRO")))
    IN  RLe(RAdd(st_q_, RMul(R(lt_retro), x.MT_EXP["LS_RETRO"])),
            R(Get(m.LT_MAX, "LS_RETRO")))

scen_ShortTermRestrict_rule(m, x) ==
    LET lt_retro == x.LT_ACTION["LS_RETRO"]
        st_q_ == RDiv(x.ST_Q["LS_RESTRICT"], R(Get(m.LT_QF, "LS_RETRO")))
    IN  RLe(RAdd(RAdd(st_q_, RMul(R(lt_retro), x.MT_EXP["LS_RETRO"])), R(lt_retro)),
            R(Get(m.LT_MAX, "LS_RETRO")))

scen_LTOption_rule(m, x) == RLe(x.ST_Q["EX_LT_OPTION"], R(x.LT_ACTION["OPTION"]))

scen_MTOption_rule(m, x) ==
    LET mt_option == RMul(R(x.LT_ACTION["OPTION"]), x.MT_EXP["OPTION"])
    IN  RLe(x.ST_Q["EX_MT_OPTION"], mt_option)

scen_ShortTermNonNegativity_rule(m, x, k) == RLe(R(0), x.ST_Q[k])

scen_MidTermNonNegativity_rule(m, x, j) == RLe(R(0), x.MT_EXP[j])

scen_LongTermNonNegativity_rule(m, x, i) == x.LT_ACTION[i] >= 0

scen_ComputeFirstStageCost_rule(m, x) == sum_product(m.C_LT, x.LT_ACTION)

scen_ComputeSecondStageCost_rule(m, x) ==
    RAdd(Rquicksum([i \in m.LT |->
             RMul(R(Get(m.C_MT, i)),
                  RMul(x.MT_EXP[i], R(x.LT_ACTION[i] * Get(m.LT_QF, i))))]),
         Rquicksum([i \in m.LT |-> RMul(R(1000), x.MT_EXP[i])]))

scen_ComputeThirdStageCost_rule(m, x) == Rsum_product(m.C_ST, x.ST_Q)

scen_total_cost_rule(m, x) ==
    RAdd(RAdd(R(scen_ComputeFirstStageCost_rule(m, x)),
              scen_ComputeSecondStageCost_rule(m, x)),
         scen_ComputeThirdStageCost_rule(m, x))

\* The constraints other than MeetShortage and ShortTermRestrict hold of x
\* (the indexed bounds are listed first).
scen_FeasibleElsewhere(m, x) ==
    /\ \A i \in m.LT : scen_LongTermMax_rule(m, x, i)
    /\ \A j \in m.MT : scen_MidTermMax_rule(m, x, j)
    /\ \A k \in m.ST : scen_ShortTermMax_rule(m, x, k)
    /\ \A k \in m.ST : scen_ShortTermNonNegativity_rule(m, x, k)
    /\ \A j \in m.MT : scen_MidTermNonNegativity_rule(m, x, j)
    /\ \A i \in m.LT : scen_LongTermNonNegativity_rule(m, x, i)
    /\ scen_MidTermLSRetro_rule(m, x)
    /\ scen_LTOption_rule(m, x)
    /\ scen_MTOption_rule(m, x)

\* Every constraint of the model holds of x.
scen_Feasible(m, x) ==
    /\ scen_FeasibleElsewhere(m, x)
    /\ scen_ShortTermRestrict_rule(m, x)
    /\ scen_MeetShortage_rule(m, x)

\* The members of Box(top) in a Var's domain of non-negative numbers.
NonNegativeBox(top) == {f \in Box(top) : \A i \in DOMAIN f : f[i] >= 0}

\* The values of LT_ACTION in NonNegativeIntegers within the indexed
\* constraints, tried up to one past the maxima.
scen_LT_tried(m) ==
    {lt \in NonNegativeBox(AsFn(m.LT_MAX)) :
        \A i \in m.LT :
            /\ scen_LongTermMax_rule(m, [LT_ACTION |-> lt], i)
            /\ scen_LongTermNonNegativity_rule(m, [LT_ACTION |-> lt], i)}

\* With LT_ACTION fixed at lt the constraints are linear in MT_EXP and ST_Q,
\* and an optimum lies at a corner of the region they bound.  The values
\* MT_EXP[j] has at a corner of the constraints other than MeetShortage: the
\* ends of its domain PercentFraction, its maximum, and where
\* MidTermLSRetro, ShortTermRestrict or MTOption meets another bound.
scen_MT_corners(m, lt, j) ==
    LET a == lt["LS_RETRO"]
        b == lt["OPTION"]
        qf == Get(m.LT_QF, "LS_RETRO")
        room == Get(m.LT_MAX, "LS_RETRO") - a
        cands == {R(0), R(1), RNorm(Get(m.MT_MAX, j))}
                 \cup (IF j = "LS_RETRO" /\ a > 0
                       THEN {RNorm(<<room, a>>),
                             RNorm(<<qf * room - Get(m.ST_MAX, "LS_RESTRICT"), qf * a>>)}
                       ELSE {})
                 \cup (IF j = "OPTION" /\ b > 0
                       THEN {RNorm(<<Get(m.ST_MAX, "EX_MT_OPTION"), b>>)}
                       ELSE {})
    IN  {v \in cands :
            /\ RLe(R(0), v) /\ RLe(v, R(1))
            /\ scen_MidTermMax_rule(m, [MT_EXP |-> [i \in {j} |-> v]], j)
            /\ scen_MidTermNonNegativity_rule(m, [MT_EXP |-> [i \in {j} |-> v]], j)}

\* The values ST_Q[k] has at such a corner, given LT_ACTION and MT_EXP: 0,
\* its maximum, and what ShortTermRestrict, LTOption or MTOption leaves it.
scen_ST_corners(m, lt, mt, k) ==
    LET a == lt["LS_RETRO"]
        b == lt["OPTION"]
        qf == Get(m.LT_QF, "LS_RETRO")
        room == Get(m.LT_MAX, "LS_RETRO") - a
        cands == {R(0), R(Get(m.ST_MAX, k))}
                 \cup (IF k = "LS_RESTRICT"
                       THEN {RMul(R(qf), RSub(R(room), RMul(R(a), mt["LS_RETRO"])))}
                       ELSE {})
                 \cup (IF k = "EX_LT_OPTION" THEN {R(b)} ELSE {})
                 \cup (IF k = "EX_MT_OPTION" THEN {RMul(R(b), mt["OPTION"])} ELSE {})
    IN  {v \in cands :
            /\ scen_ShortTermMax_rule(m, [ST_Q |-> [i \in {k} |-> v]], k)
            /\ scen_ShortTermNonNegativity_rule(m, [ST_Q |-> [i \in {k} |-> v]], k)}

\* The values of MT_EXP over keys, each key at one of its values above.
RECURSIVE scen_MT_choices(_, _, _)
scen_MT_choices(m, lt, keys) ==
    IF keys = {} THEN {EmptyFn}
    ELSE LET j == CHOOSE k \in keys : TRUE
         IN  {mt @@ (j :> v) : mt \in scen_MT_choices(m, lt, keys \ {j}),
                               v \in scen_MT_corners(m, lt, j)}

\* The values of ST_Q over keys, each key at one of its values above.
RECURSIVE scen_ST_choices(_, _, _, _)
scen_ST_choices(m, lt, mt, keys) ==
    IF keys = {} THEN {EmptyFn}
    ELSE LET k == CHOOSE j \in keys : TRUE
         IN  {st @@ (k :> v) : st \in scen_ST_choices(m, lt, mt, keys \ {k}),
                               v \in scen_ST_corners(m, lt, mt, k)}

\* The assignments with every variable at one of the values above.
scen_Corners(m) ==
    UNION {UNION {{[LT_ACTION |-> lt, MT_EXP |-> mt, ST_Q |-> st] :
                      st \in scen_ST_choices(m, lt, mt, m.ST)} :
                  mt \in scen_MT_choices(m, lt, m.MT)} :
           lt \in scen_LT_tried(m)}

\* The point of the segment from v to w at the share t of the way.
scen_Between(v, w, t) ==
    [LT_ACTION |-> v.LT_ACTION,
     MT_EXP |-> [j \in DOMAIN v.MT_EXP |->
                    RAdd(v.MT_EXP[j], RMul(t, RSub(w.MT_EXP[j], v.MT_EXP[j])))],
     ST_Q |-> [k \in DOMAIN v.ST_Q |->
                  RAdd(v.ST_Q[k], RMul(t, RSub(w.ST_Q[k], v.ST_Q[k])))]]

\* Two corners of the same LT_ACTION that differ in the variables of one
\* coupling only: MT_EXP['LS_RETRO'] with ST_Q['LS_RESTRICT']
\* (ShortTermRestrict), MT_EXP['OPTION'] with ST_Q['EX_MT_OPTION'] (MTOption),
\* or ST_Q['EX_LT_OPTION'].  An edge of the region joins two such corners.
scen_AlongOneCoupling(v, w) ==
    LET retro == \/ v.MT_EXP["LS_RETRO"] # w.MT_EXP["LS_RETRO"]
                 \/ v.ST_Q["LS_RESTRICT"] # w.ST_Q["LS_RESTRICT"]
        option == \/ v.MT_EXP["OPTION"] # w.MT_EXP["OPTION"]
                  \/ v.ST_Q["EX_MT_OPTION"] # w.ST_Q["EX_MT_OPTION"]
        lt_option == v.ST_Q["EX_LT_OPTION"] # w.ST_Q["EX_LT_OPTION"]
    IN  /\ v.LT_ACTION = w.LT_ACTION
        /\ ~(retro /\ option) /\ ~(retro /\ lt_option) /\ ~(option /\ lt_option)

\* The corners that meet every constraint other than MeetShortage, each with
\* its tot_q.
scen_Measured(m) ==
    {<<x, scen_tot_q(m, x)>> :
        x \in {c \in scen_Corners(m) :
                  scen_FeasibleElsewhere(m, c) /\ scen_ShortTermRestrict_rule(m, c)}}

\* The points where MeetShortage holds with equality on a segment between two
\* such corners along one coupling, one short of SHORTAGE_Q['SH'] and one not.
scen_OnMeetShortage(m) ==
    LET need == R(m.SHORTAGE_Q["SH"])
    IN  UNION {UNION {{scen_Between(v[1], w[1],
                           RDiv(RSub(need, v[2]), RSub(w[2], v[2]))) :
                         w \in {u \in V : /\ RLe(need, u[2])
                                          /\ scen_AlongOneCoupling(v[1], u[1])}} :
                      v \in {u \in V : ~RLe(need, u[2])}} :
               V \in {scen_Measured(m)}}

\* The assignments among which an optimum lies if there is a feasible one:
\* for each LT_ACTION, the constraints bound a polytope in MT_EXP and ST_Q
\* whose corners are corners of the other constraints or lie on MeetShortage
\* between two of them.
scen_Bounded(m) == scen_Corners(m) \cup scen_OnMeetShortage(m)

\* The feasible assignments among scen_Bounded(m), each with its
\* Total_Cost_Objective.
scen_Priced(m) ==
    {<<x, scen_total_cost_rule(m, x)>> :
        x \in {y \in scen_Bounded(m) : scen_Feasible(m, y)}}

\* What a solver finds for an instance: a feasible assignment of least
\* Total_Cost_Objective, or that there is none.
scen_Solutions(m) ==
    UNION {IF F = {} THEN {[status |-> "infeasible"]}
           ELSE {[status |-> "optimal", x |-> p[1], cost |-> p[2]] :
                    p \in {q \in F : \A e \in F : RLe(q[2], e[2])}} :
           F \in {scen_Priced(m)}}

Solve_scen ==
    /\ prog = "three_stage_scenario" /\ stage = "built"
    /\ instances # <<>> /\ sol.status = "unsolved"
    /\ LET n == Len(instances)      \* the instance created last
       IN  \E found \in scen_Solutions(instances[n].m) : sol' = found @@ [n |-> n]
    /\ UNCHANGED <<prog, data, stage, model, SHORTAGE_Q, SHORTAGE_P, instances,
                   tree, raised>>

(***************************************************************************)
(* The documents the three-stage scenario model is solved on.              *)
(***************************************************************************)
\* A document with one projection P1 and one scenario S1 of requirement req.
ScenDoc(lt_max, lt_qf, mt_max, st_max, req) ==
    Lit(<<"LT_MAX", "LT_QF", "C_LT", "MT_MAX", "C_MT", "ST_MAX", "C_ST",
          "SHORTAGE_Q", "PROJECTION_P", "SHORTAGE_P">>,
        <<Lit(<<"LS_RETRO", "OPTION">>, lt_max),
          Lit(<<"LS_RETRO", "OPTION">>, lt_qf),
          Lit(<<"LS_RETRO", "OPTION">>, <<1, 1>>),
          Lit(<<"LS_RETRO", "OPTION">>, mt_max),
          Lit(<<"LS_RETRO", "OPTION">>, <<1, 1>>),
          Lit(<<"LS_RESTRICT", "EX_LT_OPTION", "EX_MT_OPTION">>, st_max),
          Lit(<<"LS_RESTRICT", "EX_LT_OPTION", "EX_MT_OPTION">>, <<5, 5, 5>>),
          Lit(<<"P1">>, <<Lit(<<"S1">>, <<req>>)>>),
          Lit(<<"P1">>, <<PUnit>>),
          Lit(<<"P1">>, <<Lit(<<"S1">>, <<PUnit>>)>>)>>)

ScenData ==
    {ScenDoc(<<a, b>>, <<qf, 1>>, <<Frac(1, 2), Frac(1, 1)>>, <<f, 1, 1>>, req) :
        a \in 1..MaxCap, b \in 0..1, qf \in 1..2, f \in {0, MaxCap},
        req \in 0..(MaxQ + 1)}
    \cup {ScenDoc(<<1, 1>>, <<0, 1>>, <<Frac(1, 1), Frac(1, 1)>>, <<1, 1, 1>>, 1),
          ScenDoc(<<1, 1>>, <<1, 4>>, <<Frac(1, 1), Frac(1, 1)>>, <<0, 0, 0>>, 6)}

InitScenario ==
    /\ prog = "three_stage_scenario"
    /\ data \in ScenData
    /\ Fresh

NextScenario == Import_scen \/ CreateInstance_scen \/ Solve_scen

SpecScenario == InitScenario /\ [][NextScenario]_vars

(***************************************************************************)
(* C7                                                                      *)
(***************************************************************************)
\* ST_Q['LS_RESTRICT']/LT_QF['LS_RETRO'] + LT_ACTION['LS_RETRO']*MT_EXP['LS_RETRO']
\* + LT_ACTION['LS_RETRO']
RestrictSum(x) ==
    RAdd(RAdd(RDiv(x.ST_Q["LS_RESTRICT"], R(LTQF("LS_RETRO"))),
              RMul(R(x.LT_ACTION["LS_RETRO"]), x.MT_EXP["LS_RETRO"])),
         R(x.LT_ACTION["LS_RETRO"]))

\* The instance that was solved.
Solved == instances[sol.n].m

\* The other constraints of m allow x.
AllowedElsewhere(m, x) == scen_FeasibleElsewhere(m, x) /\ scen_MeetShortage_rule(m, x)

\* The other constraints of m allow an assignment of B, and every one they
\* allow has the sum above LT_MAX['LS_RETRO'].
ForcedAbove(m, B) ==
    /\ \E x \in B : AllowedElsewhere(m, x)
    /\ \A x \in B :
          AllowedElsewhere(m, x) => ~RLe(RestrictSum(x), R(LTMAX("LS_RETRO")))

\* C7: in the three-stage scenario model every feasible assignment has
\* ST_Q[LS_RESTRICT]/LT_QF[LS_RETRO] + LT_ACTION[LS_RETRO]*MT_EXP[LS_RETRO] +
\* LT_ACTION[LS_RETRO] <= LT_MAX[LS_RETRO], and an instance whose input forces
\* the sum above LT_MAX[LS_RETRO] is infeasible.
C7_RestrictWithinRetroMax ==
    sol.status # "unsolved" =>
        \A B \in {scen_Bounded(Solved)} :
            /\ \A x \in B :
                  scen_Feasible(Solved, x) => RLe(RestrictSum(x), R(LTMAX("LS_RETRO")))
            /\ sol.status = "optimal" => RLe(RestrictSum(sol.x), R(LTMAX("LS_RETRO")))
            /\ ForcedAbove(Solved, B) => sol.status = "infeasible"

\* An instance found infeasible whose other constraints can be met, but only
\* with the sum above LT_MAX[LS_RETRO].
C7_Witness ==
    /\ sol.status = "infeasible"
    /\ \A B \in {scen_Bounded(Solved)} : ForcedAbove(Solved, B)

(***************************************************************************)
(* C8                                                                      *)
(***************************************************************************)
\* The requirement of the scenario that was solved.
ScenRequirement == Get(SHORTAGE_Q, instances[sol.n].scenario_name)

ShortTermSum(x) == RSumOver(STs, [k \in STs |-> x.ST_Q[k]])

\* sum of LT_QF[i]*LT_ACTION[i]*MT_EXP[i]
ExploitedYield(x) ==
    RSumOver(LTs, [i \in LTs |-> RMul(R(LTQF(i) * x.LT_ACTION[i]), x.MT_EXP[i])])

\* sum of LT_QF[i]*LT_ACTION[i]*(1 + MT_EXP[i])
FullAndExploitedYield(x) ==
    RSumOver(LTs, [i \in LTs |->
        RMul(R(LTQF(i) * x.LT_ACTION[i]), RAdd(R(1), x.MT_EXP[i]))])

\* C8 as claimed: MeetShortage accepts an assignment exactly when the sum of
\* LT_QF[i]*LT_ACTION[i]*MT_EXP[i] plus the sum of ST_Q[k] is at least
\* SHORTAGE_Q['SH'].
C8_ExploitedYieldOnly ==
    sol.status # "unsolved" =>
        \A x \in scen_Bounded(Solved) :
            scen_MeetShortage_rule(Solved, x)
            <=> RLe(R(ScenRequirement), RAdd(ExploitedYield(x), ShortTermSum(x)))

\* C8, amended: MeetShortage accepts an assignment exactly when the sum of
\* LT_QF[i]*LT_ACTION[i]*(1 + MT_EXP[i]) plus the sum of ST_Q[k] is at least
\* SHORTAGE_Q['SH']; a long-term action with MT_EXP[i] = 0 is credited
\* LT_QF[i]*LT_ACTION[i].
C8_FullAndExploitedYield ==
    sol.status # "unsolved" =>
        \A x \in scen_Bounded(Solved) :
            scen_MeetShortage_rule(Solved, x)
            <=> RLe(R(ScenRequirement),
                    RAdd(FullAndExploitedYield(x), ShortTermSum(x)))

\* An optimum that covers a positive requirement by long-term actions alone,
\* none of them exploited.
C8_Witness ==
    /\ sol.status = "optimal" /\ ScenRequirement > 0
    /\ \A i \in LTs : REq(sol.x.MT_EXP[i], R(0))
    /\ REq(ShortTermSum(sol.x), R(0))
    /\ SumOver(LTs, [i \in LTs |-> LTQF(i) * sol.x.LT_ACTION[i]]) >= ScenRequirement

(***************************************************************************)
(* three_stage.py: the piecewise expansion cost.                           *)
(***************************************************************************)
LT_EXP_COST_ub == 1000000                  \* bounds=(0, 1e6) of LT_EXP_COST
LT_EXP_ACTION_ub == 1000000                \* bounds=(0, 1e6) of LT_EXP_ACTION

\* np.arange(start, stop, step).tolist()
RECURSIVE arange(_, _, _)
arange(start, stop, step) ==
    IF start >= stop THEN << >> ELSE <<start>> \o arange(start + step, stop, step)

bkpts ==
    <<0>> \o arange(5000, 150000, 10000)
          \o arange(150000, 450000, 50000)
          \o arange(450000, 1100000, 200000)

\* x**n
RECURSIVE Pow(_, _)
Pow(x, n) == IF n = 0 THEN 1 ELSE x * Pow(x, n - 1)

\* The site's entry of data['LT_EXP'].
Site(d, i) == Get(Get(d, "LT_EXP"), i)

\* scale_marginal returning the accumulated cost mult * x**p.
scale_accumulated(d, LT_EXP, LT_EXP_ACTION) ==
    IF LT_EXP_ACTION = 0 THEN 0
    ELSE Get(Site(d, LT_EXP), "multiplier")
         * Pow(LT_EXP_ACTION, Get(Site(d, LT_EXP), "p"))

scale_marginal(d, LT_EXP, LT_EXP_ACTION) ==
    IF LT_EXP_ACTION = 0 THEN 0
    ELSE LET p == Get(Site(d, LT_EXP), "p")
             mult == Get(Site(d, LT_EXP), "multiplier")
         IN  p * mult * Pow(LT_EXP_ACTION, p - 1)

\* The value the piecewise function through the points (b, f_rule(b)), b in
\* bkpts, takes at xval, which lies between the first and the last of them.
pw_value(d, i, xval) ==
    IF xval \in SeqSet(bkpts) THEN R(scale_marginal(d, i, xval))
    ELSE LET k == CHOOSE n \in 1..(Len(bkpts) - 1) : bkpts[n] < xval /\ xval < bkpts[n + 1]
             lo == bkpts[k]
             hi == bkpts[k + 1]
             f_lo == scale_marginal(d, i, lo)
             f_hi == scale_marginal(d, i, hi)
             slope == RNorm(<<f_hi - f_lo, hi - lo>>)
         IN  RAdd(R(f_lo), RMul(slope, R(xval - lo)))

\* LT_EXP_pw[i]: LT_EXP_COST[i] equals the piecewise function of LT_EXP_ACTION[i].
LT_EXP_pw(d, x, i) ==
    /\ bkpts[1] <= x.LT_EXP_ACTION[i] /\ x.LT_EXP_ACTION[i] <= bkpts[Len(bkpts)]
    /\ REq(x.LT_EXP_COST[i], pw_value(d, i, x.LT_EXP_ACTION[i]))

(***************************************************************************)
(* three_stage.py: constraints and objective.  An assignment x gives every *)
(* Var an integer, and LT_EXP_COST a fraction.                             *)
(***************************************************************************)
\* MeetShortage_rule with the expansion yield not gated by the permit.
stoch_MeetShortage_ungated(m, d, x) ==
    LET lt_q == x.LT_ACTION["RETRO"]
        exp_vop_q == quicksum([i \in m.LT_EXP |-> x.EXP_VOP_ACTION[i]])
        st_q == quicksum([i \in m.ST |-> x.ST_ACTION[i]])
        short_q == quicksum([i \in DOMAIN x.SHORT_ACTION |-> x.SHORT_ACTION[i]])
    IN  lt_q + st_q + exp_vop_q + short_q >= m.SHORTAGE_Q["SH"]

stoch_MeetShortage_rule(m, d, x) ==
    LET lt_q == x.LT_ACTION["RETRO"]
        exp_vop_q == quicksum([i \in m.LT_EXP |->
                         x.EXP_VOP_ACTION[i] * x.LT_EXP_PERMIT_ACTION[i]])
        st_q == quicksum([i \in m.ST |-> x.ST_ACTION[i]])
        short_q == quicksum([i \in DOMAIN x.SHORT_ACTION |-> x.SHORT_ACTION[i]])
    IN  lt_q + st_q + exp_vop_q + short_q >= m.SHORTAGE_Q["SH"]

stoch_LongTermMax_rule(m, d, x, i) == x.LT_ACTION[i] <= m.LT_MAX[i]

stoch_LongTermExp_rule(m, d, x, i) ==
    RLe(RDiv(R(x.EXP_ACTION[i]), R(Get(Site(d, i), "exp_max"))), R(x.LT_EXP_ACTION[i]))

stoch_BaselineMinOp_rule(m, d, x, i) ==
    LET total_lt_exp == x.EXP_ACTION[i] + x.LT_EXP_ACTION[i]
        min_ratio == Get(Site(d, i), "baseline_op_min_ratio")
    IN  RLe(RMul(min_ratio, R(total_lt_exp)), R(x.EXP_BOP_ACTION[i]))

stoch_BaselineMaxOp_rule(m, d, x, i) ==
    LET total_lt_exp == x.EXP_ACTION[i] + x.LT_EXP_ACTION[i]
    IN  x.EXP_BOP_ACTION[i] <= total_lt_exp

\* VariableMinOp_rule bounding the variable operation by 0 only.
stoch_VariableMinOp_above_zero(m, d, x, i) == x.EXP_VOP_ACTION[i] >= 0

stoch_VariableMinOp_rule(m, d, x, i) == x.EXP_VOP_ACTION[i] >= x.EXP_BOP_ACTION[i]

stoch_VariableMaxOp_rule(m, d, x, i) ==
    LET total_lt_exp == x.EXP_ACTION[i] + x.LT_EXP_ACTION[i]
    IN  x.EXP_VOP_ACTION[i] <= total_lt_exp

stoch_ShortTermMax_rule(m, d, x, k) == x.ST_ACTION[k] <= m.ST_MAX[k]

stoch_ShortTermRestrict_rule(m, d, x) ==
    x.LT_ACTION["RETRO"] + x.ST_ACTION["RESTRICT"] <= m.LT_MAX["RETRO"]

stoch_LTOption_rule(m, d, x) == x.ST_ACTION["OPTION"] <= x.LT_ACTION["OPTION"]

stoch_ShortMax_rule(m, d, x, i) == x.SHORT_ACTION[i] <= m.SHORT_Q_MAX[i]

\* The domains and bounds the Vars are declared with.
stoch_VarBounds(m, x) ==
    /\ \A i \in m.LT : x.LT_ACTION[i] >= 0
    /\ \A k \in m.ST : x.ST_ACTION[k] >= 0
    /\ \A i \in m.LT_EXP :
          /\ x.LT_EXP_PERMIT_ACTION[i] \in {0, 1}
          /\ 0 <= x.LT_EXP_ACTION[i] /\ x.LT_EXP_ACTION[i] <= LT_EXP_ACTION_ub
          /\ RLe(R(0), x.LT_EXP_COST[i]) /\ RLe(x.LT_EXP_COST[i], R(LT_EXP_COST_ub))
          /\ x.EXP_ACTION[i] >= 0 /\ x.EXP_BOP_ACTION[i] >= 0
          /\ x.EXP_VOP_ACTION[i] >= 0
    /\ \A i \in m.SHORT : x.SHORT_ACTION[i] >= 0

\* Every constraint of the model holds of x.
stoch_Feasible(m, d, x) ==
    /\ stoch_VarBounds(m, x)
    /\ \A i \in m.LT_EXP : LT_EXP_pw(d, x, i)
    /\ stoch_MeetShortage_rule(m, d, x)
    /\ \A i \in m.LT : stoch_LongTermMax_rule(m, d, x, i)
    /\ \A i \in m.LT_EXP : stoch_LongTermExp_rule(m, d, x, i)
    /\ \A i \in m.LT_EXP : stoch_BaselineMinOp_rule(m, d, x, i)
    /\ \A i \in m.LT_EXP : stoch_BaselineMaxOp_rule(m, d, x, i)
    /\ \A i \in m.LT_EXP : stoch_VariableMinOp_rule(m, d, x, i)
    /\ \A i \in m.LT_EXP : stoch_VariableMaxOp_rule(m, d, x, i)
    /\ \A k \in m.ST : stoch_ShortTermMax_rule(m, d, x, k)
    /\ stoch_ShortTermRestrict_rule(m, d, x)
    /\ stoch_LTOption_rule(m, d, x)
    /\ \A i \in m.SHORT : stoch_ShortMax_rule(m, d, x, i)

stoch_ComputeFirstStageCost_rule(m, d, x) ==
    LET lt_actions == sum_product_fn(m.C_LT, x.LT_ACTION)
        lt_exp_actions == Rquicksum([i \in m.LT_EXP |->
                              RMul(R(x.LT_EXP_ACTION[i]), x.LT_EXP_COST[i])])
        lt_exp_permit_action == quicksum([i \in m.LT_EXP |->
                                    x.LT_EXP_PERMIT_ACTION[i] * m.LT_EXP_PERMIT_COST[i]])
    IN  RAdd(RAdd(R(lt_actions), lt_exp_actions), R(lt_exp_permit_action))

stoch_ComputeSecondStageCost_rule(m, d, x) ==
    LET expansion_cost == Rquicksum([i \in m.LT_EXP |->
                              RMul(R(x.EXP_ACTION[i]), x.LT_EXP_COST[i])])
        baseline_op_cost == quicksum([i \in m.LT_EXP |->
                                x.EXP_BOP_ACTION[i] * Get(Site(d, i), "baseline_op_cost")])
    IN  RAdd(expansion_cost, R(baseline_op_cost))

stoch_ComputeThirdStageCost_rule(m, d, x) ==
    LET st_actions == sum_product_fn(m.C_ST, x.ST_ACTION)
        short_cost == quicksum([i \in DOMAIN x.SHORT_ACTION |->
                          x.SHORT_ACTION[i] * m.SHORT_COST[i]])
        exp_op_cost == quicksum([i \in m.LT_EXP |->
                           x.EXP_VOP_ACTION[i] * Get(Site(d, i), "variable_op_cost")])
    IN  st_actions + short_cost + exp_op_cost

stoch_total_cost_rule(m, d, x) ==
    RAdd(RAdd(stoch_ComputeFirstStageCost_rule(m, d, x),
              stoch_ComputeSecondStageCost_rule(m, d, x)),
         R(stoch_ComputeThirdStageCost_rule(m, d, x)))

\* The assignment with every Var at its initial value 0.
stoch_Zero(m) ==
    [LT_ACTION |-> [i \in m.LT |-> 0],
     ST_ACTION |-> [i \in m.ST |-> 0],
     LT_EXP_PERMIT_ACTION |-> [i \in m.LT_EXP |-> 0],
     LT_EXP_ACTION |-> [i \in m.LT_EXP |-> 0],
     LT_EXP_COST |-> [i \in m.LT_EXP |-> R(0)],
     EXP_ACTION |-> [i \in m.LT_EXP |-> 0],
     EXP_BOP_ACTION |-> [i \in m.LT_EXP |-> 0],
     EXP_VOP_ACTION |-> [i \in m.LT_EXP |-> 0],
     SHORT_ACTION |-> [i \in m.SHORT |-> 0]]

MaxAct == 1     \* largest value tried for a long-term, short-term or shortage action
MaxExp == 2     \* largest expansion tried off the breakpoints
MaxCharge == 1000000000     \* largest LT_EXP_ACTION*LT_EXP_COST tried at a breakpoint

\* b**n <= limit
RECURSIVE PowWithin(_, _, _)
PowWithin(b, n, limit) ==
    IF n = 0 \/ b = 0 THEN 1 <= limit ELSE PowWithin(b, n - 1, limit \div b)

\* The breakpoints at which every site's charge LT_EXP_ACTION*LT_EXP_COST,
\* p*mult*b**p or mult*b**(p+1), is within MaxCharge.
stoch_BreakpointsTried(m, d, kind) ==
    {b \in SeqSet(bkpts) :
        \A i \in m.LT_EXP :
            LET p == Get(Site(d, i), "p")
                mult == Get(Site(d, i), "multiplier")
            IN  IF kind = "piecewise" THEN PowWithin(b, p, MaxCharge \div (p * mult))
                ELSE PowWithin(b, p + 1, MaxCharge \div mult)}

\* The values tried for LT_EXP_COST of a site expanded by b: the value of the
\* piecewise function, or the accumulated cost.
stoch_CostTried(d, i, b, kind) ==
    IF kind = "piecewise" THEN pw_value(d, i, b) ELSE R(scale_accumulated(d, i, b))

\* The assignments a solver's candidate is drawn from: the long-term,
\* short-term and shortage actions without expansion; small expansions of
\* every site, with or without the retrofit; and every site expanded to one
\* of the breakpoints tried and operated in full.
stoch_Points(m, d) ==
    LET Z == stoch_Zero(m)
        kinds == {"piecewise", "accumulated"}
    IN  {[Z EXCEPT !.LT_ACTION = lt, !.ST_ACTION = st, !.SHORT_ACTION = sh] :
            lt \in [m.LT -> 0..MaxAct], st \in [m.ST -> 0..MaxAct],
            sh \in [m.SHORT -> 0..MaxAct]}
        \cup
        {[Z EXCEPT !.LT_ACTION = [@ EXCEPT !["RETRO"] = r],
                   !.LT_EXP_PERMIT_ACTION = [i \in m.LT_EXP |-> pm],
                   !.LT_EXP_ACTION = [i \in m.LT_EXP |-> b],
                   !.LT_EXP_COST = [i \in m.LT_EXP |-> stoch_CostTried(d, i, b, kind)],
                   !.EXP_ACTION = [i \in m.LT_EXP |-> e],
                   !.EXP_BOP_ACTION = [i \in m.LT_EXP |-> bo],
                   !.EXP_VOP_ACTION = [i \in m.LT_EXP |-> vo]] :
            r \in 0..MaxAct, pm \in 0..1, b \in 0..MaxExp, kind \in kinds,
            e \in 0..MaxAct, bo \in 0..MaxExp, vo \in 0..MaxExp}
        \cup
        UNION {{[Z EXCEPT !.LT_EXP_PERMIT_ACTION = [i \in m.LT_EXP |-> pm],
                          !.LT_EXP_ACTION = [i \in m.LT_EXP |-> b],
                          !.LT_EXP_COST =
                              [i \in m.LT_EXP |-> stoch_CostTried(d, i, b, kind)],
                          !.EXP_BOP_ACTION = [i \in m.LT_EXP |-> b],
                          !.EXP_VOP_ACTION = [i \in m.LT_EXP |-> b]] :
                    pm \in 0..1, b \in stoch_BreakpointsTried(m, d, kind)} :
               kind \in kinds}

\* The constraints and the first-stage cost of the instance created last,
\* evaluated at a candidate assignment.
Evaluate_stoch ==
    /\ prog = "three_stage" /\ stage = "built"
    /\ instances # <<>> /\ sol.status = "unsolved"
    /\ LET n == Len(instances)
           m == instances[n].m
       IN  \E x \in stoch_Points(m, data) :
               sol' = [status |-> IF stoch_Feasible(m, data, x)
                                  THEN "feasible" ELSE "infeasible",
                       n |-> n, x |-> x,
                       first |-> stoch_ComputeFirstStageCost_rule(m, data, x)]
    /\ UNCHANGED <<prog, data, stage, model, SHORTAGE_Q, SHORTAGE_P, instances,
                   tree, raised>>

(***************************************************************************)
(* The documents the three-stage stochastic model is evaluated on.         *)
(***************************************************************************)
MaxP == 3       \* largest exponent p of a site
MaxMult == 20   \* largest multiplier of a site

\* A document with one site E1, one projection P3, one scenario S3 of
\* requirement req and one shortage bucket B1 of capacity cap.
StochDoc(pw, mult, req, cap) ==
    Lit(<<"LT_MAX", "LT_MIN", "C_LT", "ST_MAX", "ST_MIN", "C_ST", "LT_EXP",
          "SHORT_Q_MAX", "SHORT_COST", "SHORTAGE_Q", "PROJECTION_P", "SHORTAGE_P">>,
        <<Lit(<<"RETRO", "OPTION">>, <<1, 0>>),
          Lit(<<"RETRO", "OPTION">>, <<0, 0>>),
          Lit(<<"RETRO", "OPTION">>, <<3, 2>>),
          Lit(<<"RESTRICT", "OPTION">>, <<1, 1>>),
          Lit(<<"RESTRICT", "OPTION">>, <<0, 0>>),
          Lit(<<"RESTRICT", "OPTION">>, <<4, 2>>),
          Lit(<<"E1">>,
              <<Lit(<<"permit_cost", "p", "multiplier", "exp_max",
                      "baseline_op_min_ratio", "baseline_op_cost", "variable_op_cost">>,
                    <<7, pw, mult, 2, Frac(1, 2), 1, 1>>)>>),
          Lit(<<"P3">>, <<Lit(<<"B1">>, <<cap>>)>>),
          Lit(<<"P3">>, <<Lit(<<"B1">>, <<9>>)>>),
          Lit(<<"P3">>, <<Lit(<<"S3">>, <<req>>)>>),
          Lit(<<"P3">>, <<PUnit>>),
          Lit(<<"P3">>, <<Lit(<<"S3">>, <<PUnit>>)>>)>>)

\* The documents whose marginal cost at the first breakpoint above 0 is an
\* integer of the model checker.
StochData ==
    {StochDoc(pm[1], pm[2], req, cap) :
        pm \in {qm \in (1..MaxP) \X {1, MaxMult} :
                   PowWithin(bkpts[2], qm[1] - 1, 2147483647 \div (qm[1] * qm[2]))},
        req \in 0..1, cap \in 0..1}

InitStochastic ==
    /\ prog = "three_stage"
    /\ data \in StochData
    /\ Fresh

NextStochastic == Import_stoch \/ CreateInstance_stoch \/ Evaluate_stoch

SpecStochastic == InitStochastic /\ [][NextStochastic]_vars

(***************************************************************************)
(* C9                                                                      *)
(***************************************************************************)
Sites == KeySet(Get(data, "LT_EXP"))

\* The requirement of the scenario whose instance was evaluated.
StochRequirement == Get(SHORTAGE_Q, instances[sol.n].scenario_name)

\* The quantity that counts toward the shortage when only the sites with a
\* permit are credited their variable operation.
PermittedCoverage(x) ==
    LET permitted == {i \in Sites : x.LT_EXP_PERMIT_ACTION[i] = 1}
    IN  x.LT_ACTION["RETRO"]
        + SumOver(DOMAIN x.ST_ACTION, x.ST_ACTION)
        + SumOver(permitted, x.EXP_VOP_ACTION)
        + SumOver(DOMAIN x.SHORT_ACTION, x.SHORT_ACTION)

\* C9 as claimed: in every feasible assignment of the three-stage stochastic
\* model a site without permit has no expansion capacity:
\* LT_EXP_PERMIT_ACTION[i] = 0 implies LT_EXP_ACTION[i] = 0.
C9_PermitGatesCapacity ==
    sol.status = "feasible" =>
        \A i \in Sites :
            sol.x.LT_EXP_PERMIT_ACTION[i] = 0 => sol.x.LT_EXP_ACTION[i] = 0

\* C9, amended: the permit gates the yield of a site, not its capacity.
\* MeetShortage accepts an assignment exactly when the retrofit, the
\* short-term actions, the variable operation of the sites that have a permit
\* and the shortage actions together reach SHORTAGE_Q['SH']; so in every
\* feasible assignment a site without permit contributes nothing to it.
C9_PermitGatesYield ==
    sol.status # "unsolved" =>
        /\ stoch_MeetShortage_rule(Solved, data, sol.x)
           <=> PermittedCoverage(sol.x) >= StochRequirement
        /\ sol.status = "feasible" => PermittedCoverage(sol.x) >= StochRequirement

\* A feasible assignment in which a site without permit is expanded and
\* operated while the retrofit covers the requirement.
C9_Witness ==
    /\ sol.status = "feasible" /\ StochRequirement > 0
    /\ \E i \in Sites :
          /\ sol.x.LT_EXP_PERMIT_ACTION[i] = 0
          /\ sol.x.LT_EXP_ACTION[i] > 0
          /\ sol.x.EXP_VOP_ACTION[i] > 0

(***************************************************************************)
(* C10                                                                     *)
(***************************************************************************)
SiteP(i) == Get(Site(data, i), "p")
SiteMult(i) == Get(Site(data, i), "multiplier")

\* The integral from 0 to b of p*mult*x^(p-1).
Integral(i, b) == SiteMult(i) * Pow(b, SiteP(i))

\* p*mult*b^(p-1), and 0 at b = 0.
Marginal(i, b) == IF b = 0 THEN 0 ELSE SiteP(i) * SiteMult(i) * Pow(b, SiteP(i) - 1)

\* The sites that the evaluated assignment expands to a breakpoint.
AtBreakpoint == {i \in Sites : sol.x.LT_EXP_ACTION[i] \in SeqSet(bkpts)}

\* C10 as claimed: in a feasible assignment with LT_EXP_ACTION[i] at a
\* breakpoint b, the expansion cost charged (LT_EXP_COST[i], or its product
\* with LT_EXP_ACTION[i] in the first-stage cost) is the integral mult*b^p.
C10_ChargedIsIntegral ==
    sol.status = "feasible" =>
        \A i \in AtBreakpoint :
            LET b == sol.x.LT_EXP_ACTION[i]
            IN  \/ REq(sol.x.LT_EXP_COST[i], R(Integral(i, b)))
                \/ REq(RMul(R(b), sol.x.LT_EXP_COST[i]), R(Integral(i, b)))

\* C10, amended: in a feasible assignment with LT_EXP_ACTION[i] at a
\* breakpoint b, LT_EXP_COST[i] is the marginal cost p*mult*b^(p-1) (0 at
\* b = 0), and the first-stage cost charges LT_EXP_ACTION[i]*LT_EXP_COST[i],
\* which is p times the integral mult*b^p.
C10_ChargedIsMarginalTimesQuantity ==
    sol.status = "feasible" =>
        /\ \A i \in AtBreakpoint :
              LET b == sol.x.LT_EXP_ACTION[i]
              IN  /\ REq(sol.x.LT_EXP_COST[i], R(Marginal(i, b)))
                  /\ REq(RMul(R(b), sol.x.LT_EXP_COST[i]), R(SiteP(i) * Integral(i, b)))
        /\ AtBreakpoint = Sites =>
              REq(sol.first,
                  R(SumOver(DOMAIN sol.x.LT_ACTION,
                            [i \in DOMAIN sol.x.LT_ACTION |->
                                Get(Get(data, "C_LT"), i) * sol.x.LT_ACTION[i]])
                    + SumOver(Sites, [i \in Sites |->
                                SiteP(i) * Integral(i, sol.x.LT_EXP_ACTION[i])])
                    + SumOver(Sites, [i \in Sites |->
                                sol.x.LT_EXP_PERMIT_ACTION[i]
                                * Get(Site(data, i), "permit_cost")])))

\* A feasible assignment with a site of exponent above 1 expanded to a
\* breakpoint beyond the first, the charge being above the integral.
C10_Witness ==
    /\ sol.status = "feasible"
    /\ \E i \in AtBreakpoint :
          /\ SiteP(i) > 1 /\ sol.x.LT_EXP_ACTION[i] >= bkpts[3]
          /\ ~RLe(RMul(R(sol.x.LT_EXP_ACTION[i]), sol.x.LT_EXP_COST[i]),
                  R(Integral(i, sol.x.LT_EXP_ACTION[i])))

(***************************************************************************)
(* C11                                                                     *)
(***************************************************************************)
\* T = EXP_ACTION[i] + LT_EXP_ACTION[i]
TotalExpansion(x, i) == x.EXP_ACTION[i] + x.LT_EXP_ACTION[i]

SiteMinRatio(i) == Get(Site(data, i), "baseline_op_min_ratio")

\* C11: in the three-stage stochastic model every feasible assignment has, for
\* every expansion site i with T = EXP_ACTION[i] + LT_EXP_ACTION[i],
\* baseline_op_min_ratio[i]*T <= EXP_BOP_ACTION[i] <= EXP_VOP_ACTION[i] <= T.
C11_OperationWithinExpansion ==
    sol.status = "feasible" =>
        \A i \in Sites :
            /\ RLe(RMul(SiteMinRatio(i), R(TotalExpansion(sol.x, i))),
                   R(sol.x.EXP_BOP_ACTION[i]))
            /\ sol.x.EXP_BOP_ACTION[i] <= sol.x.EXP_VOP_ACTION[i]
            /\ sol.x.EXP_VOP_ACTION[i] <= TotalExpansion(sol.x, i)

\* A feasible assignment with a site expanded, its baseline operation at the
\* least the ratio allows and below its variable operation.
C11_Witness ==
    /\ sol.status = "feasible"
    /\ \E i \in Sites :
          /\ TotalExpansion(sol.x, i) > 0
          /\ REq(RMul(SiteMinRatio(i), R(TotalExpansion(sol.x, i))),
                 R(sol.x.EXP_BOP_ACTION[i]))
          /\ sol.x.EXP_BOP_ACTION[i] > 0
          /\ sol.x.EXP_BOP_ACTION[i] < sol.x.EXP_VOP_ACTION[i]

(***************************************************************************)
(* Documents with a missing key.                                           *)
(***************************************************************************)
\* The dict d without its key at the end of `path`, a sequence of keys that
\* leads through nested dicts.
RECURSIVE Del(_, _)
Del(d, path) ==
    IF Len(path) = 1
    THEN LET Kept(e) == e.k # path[1] IN SelectSeq(d, Kept)
    ELSE [n \in 1..Len(d) |->
             IF d[n].k = path[1]
             THEN [k |-> d[n].k, v |-> Del(d[n].v, Tail(path))]
             ELSE d[n]]

\* One document per program with every key the program reads.
CompleteData(program) ==
    IF program = "two_stage_concrete"
    THEN StdTwo \o Lit(<<"SHORTAGE_Q", "SHORTAGE_P">>,
                       <<FullDict(<<"S1", "S2">>, QTable["P1"]),
                         Lit(<<"S1", "S2">>, <<1, PUnit - 1>>)>>)
    ELSE (IF program = "three_stage_scenario" THEN StdScen
          ELSE StdStoch \o Lit(<<"SHORT_Q_MAX", "SHORT_COST">>,
                               <<Lit(Projections,
                                     <<FullDict(Buckets, QMaxTable["P1"]),
                                       FullDict(Buckets, QMaxTable["P3"])>>),
                                 Lit(Projections,
                                     <<FullDict(Buckets, CostTable["P1"]),
                                       FullDict(Buckets, CostTable["P3"])>>)>>))
         \o Lit(<<"SHORTAGE_Q", "SHORTAGE_P", "PROJECTION_P">>,
                <<StdShortageQ, StdShortageP, StdProjectionP>>)

\* The top-level keys of a three-stage document whose values are dicts of
\* dicts.
NestedKeys(program) ==
    IF program = "two_stage_concrete" THEN {}
    ELSE {"SHORTAGE_Q", "SHORTAGE_P", "SHORT_Q_MAX", "SHORT_COST", "LT_EXP"}

\* The paths of the keys of the document d, down to its innermost dicts.
KeyPaths(program, d) ==
    LET top == KeySet(d)
    IN  {<<k>> : k \in top}
        \cup UNION {{<<k, j>> : j \in KeySet(Get(d, k))} : k \in top}
        \cup UNION {UNION {{<<k, j, i>> : i \in KeySet(Get(Get(d, k), j))} :
                              j \in KeySet(Get(d, k))} :
                        k \in top \cap NestedKeys(program)}

\* The complete document and every document that lacks one of its keys.
KeyData(program) ==
    {CompleteData(program)} \cup
    {Del(CompleteData(program), path) : path \in KeyPaths(program, CompleteData(program))}

InitKeys ==
    /\ prog \in Programs
    /\ data \in KeyData(prog)
    /\ Fresh

SpecKeys == InitKeys /\ [][NextCallbacks]_vars

(***************************************************************************)
(* Where a missing key fails.                                              *)
(***************************************************************************)
\* The top-level keys of `data` the module-level code subscripts.
ModuleKeys ==
    IF prog = "two_stage_concrete" THEN two_keys
    ELSE IF prog = "three_stage_scenario"
    THEN scen_keys \cup {"SHORTAGE_Q", "SHORTAGE_P"}
    ELSE {"LT_MAX", "LT_EXP", "ST_MAX", "SHORT_Q_MAX", "LT_MIN", "C_LT", "ST_MIN",
          "C_ST", "SHORTAGE_Q", "SHORTAGE_P"}

ImportStep == Import_two \/ Import_scen \/ Import_stoch

\* A call of pysp_scenario_tree_model_callback.
TreeCallStep == BuildTree_two \/ BuildTree_scen \/ BuildTree_stoch

\* The node paths of the scenarios of the tree g, from Root to each leaf.
TreePaths(g) ==
    IF prog = "two_stage_concrete"
    THEN {<<"Root", e[2]>> : e \in OutEdges(g, "Root")}
    ELSE UNION {{<<"Root", e[2], f[2]>> : f \in OutEdges(g, e[2])} :
                    e \in OutEdges(g, "Root")}

\* A call of pysp_instance_creation_callback for the scenario at the end of
\* node_names.
InstanceCallStep(node_names) ==
    LET scenario_name == node_names[Len(node_names)]
    IN  /\ stage = "built"
        /\ Created(IF prog = "two_stage_concrete"
                   THEN two_pysp_instance_creation_callback(
                            model, SHORTAGE_Q, scenario_name, node_names)
                   ELSE IF prog = "three_stage_scenario"
                   THEN scen_pysp_instance_creation_callback(
                            model, SHORTAGE_Q, scenario_name, node_names)
                   ELSE stoch_pysp_instance_creation_callback(
                            model, data, SHORTAGE_Q, scenario_name, node_names),
                   scenario_name, node_names)

\* The document holds every key the tree callback subscripts.
TreeKeys ==
    IF prog = "two_stage_concrete"
    THEN KeySet(Get(data, "SHORTAGE_Q")) \subseteq KeySet(Get(data, "SHORTAGE_P"))
    ELSE /\ Has(data, "PROJECTION_P")
         /\ KeySet(Get(data, "PROJECTION_P")) \subseteq KeySet(Get(data, "SHORTAGE_P"))

\* The document holds every key the instance callback subscripts for the
\* scenario at the end of node_names.
InstanceKeys(node_names) ==
    LET scenario_name == node_names[Len(node_names)]
        q == Get(data, "SHORTAGE_Q")
    IN  IF prog = "two_stage_concrete" THEN Has(q, scenario_name)
        ELSE /\ \E p \in KeySet(q) : Has(Get(q, p), scenario_name)
             /\ \/ prog = "three_stage_scenario"
                \/ LET SHORT == KeySet(Get(Get(data, "SHORT_Q_MAX"), "P3"))
                   IN  \/ SHORT = {}
                       \/ \A name \in {"SHORT_Q_MAX", "SHORT_COST"} :
                             /\ Has(data, name)
                             /\ Has(Get(data, name), node_names[2])
                             /\ SHORT \subseteq
                                    KeySet(Get(Get(data, name), node_names[2]))

\* C12: a missing key fails as a KeyError where the code first subscripts it.
\* A document without a top-level key the module-level code reads never gets
\* its symbolic model built.  Once the model is built, a call of
\* pysp_scenario_tree_model_callback raises KeyError exactly when the document
\* lacks a key that callback subscripts, and a call of
\* pysp_instance_creation_callback for a scenario of the returned tree raises
\* KeyError exactly when the document lacks a key it subscripts for that
\* scenario; neither call fails otherwise.
C12_LookupFailureAtFirstUse ==
    [][/\ (ImportStep /\ ~(ModuleKeys \subseteq KeySet(data))) => stage' # "built"
       /\ TreeCallStep => raised' = IF TreeKeys THEN NoException ELSE "KeyError"
       /\ \A node_names \in TreePaths(tree.g) :
             InstanceCallStep(node_names) =>
                 raised' = IF InstanceKeys(node_names) THEN NoException
                           ELSE "KeyError"]_vars

\* C12 as stated: once the symbolic model has been built, no call of
\* pysp_scenario_tree_model_callback and no call of
\* pysp_instance_creation_callback for a scenario of the tree raises.
C12_NoLookupFailureOnceBuilt ==
    [][/\ TreeCallStep => raised' = NoException
       /\ \A node_names \in TreePaths(tree.g) :
             InstanceCallStep(node_names) => raised' = NoException]_vars

\* The symbolic model of three_stage.py was built from a document without
\* PROJECTION_P, no call of the instance callback fails on it, and a call of
\* the tree callback has raised KeyError.
C12_Witness ==
    /\ prog = "three_stage" /\ stage = "built"
    /\ ~Has(data, "PROJECTION_P")
    /\ \A scenario_name \in Scenarios, projection \in SeqSet(Projections) :
          stoch_pysp_instance_creation_callback(
              model, data, SHORTAGE_Q, scenario_name,
              <<"Root", projection, scenario_name>>).ret.raised = NoException
    /\ raised = "KeyError"
    /\ ~tree.returned

(***************************************************************************)
(* The shortage quantity of an instance of the three-stage models.         *)
(***************************************************************************)
\* Whether data['SHORTAGE_Q'] lists scenario s under projection p.
Listed(p, s) ==
    /\ Has(Get(data, "SHORTAGE_Q"), p)
    /\ Has(Get(Get(data, "SHORTAGE_Q"), p), s)

\* data['SHORTAGE_Q'][p][s]
NestedQ(p, s) == Get(Get(Get(data, "SHORTAGE_Q"), p), s)

\* The last projection, in the order of the document, that lists s.
LastListing(s) ==
    LET q == Get(data, "SHORTAGE_Q")
        last == CHOOSE n \in 1..Len(q) :
                    /\ Has(q[n].v, s)
                    /\ \A j \in (n + 1)..Len(q) : ~Has(q[j].v, s)
    IN  q[last].k

\* C13 as stated: the instance created for s along (Root, p, s), with s
\* listed under p, has SHORTAGE_Q['SH'] = data['SHORTAGE_Q'][p][s].
C13_ValueOfOwnProjection ==
    ThreeStage =>
        \A n \in 1..Len(instances) :
            LET p == instances[n].node_names[2]
                s == instances[n].scenario_name
            IN  Listed(p, s) => instances[n].m.SHORTAGE_Q["SH"] = NestedQ(p, s)

\* C13, amended: the instance created for s has SHORTAGE_Q['SH'] equal to the
\* value listed for s under the last projection of data['SHORTAGE_Q'] that
\* lists a scenario named s, whatever the node path; that is
\* data['SHORTAGE_Q'][p][s] for the path (Root, p, s) when no later
\* projection lists a scenario of the same name.
C13_ValueOfLastListing ==
    ThreeStage =>
        \A n \in 1..Len(instances) :
            LET p == instances[n].node_names[2]
                s == instances[n].scenario_name
                value == instances[n].m.SHORTAGE_Q["SH"]
            IN  /\ value = NestedQ(LastListing(s), s)
                /\ (Listed(p, s) /\ \A o \in KeySet(Get(data, "SHORTAGE_Q")) \ {p} :
                                        ~Listed(o, s))
                       => value = NestedQ(p, s)

\* An instance was created along (Root, p, s) with s listed under p and
\* under a later projection with another value, and holds the later value.
C13_Witness ==
    /\ ThreeStage
    /\ \E n \in 1..Len(instances) :
          LET p == instances[n].node_names[2]
              s == instances[n].scenario_name
          IN  /\ Listed(p, s)
              /\ LastListing(s) # p
              /\ instances[n].m.SHORTAGE_Q["SH"] # NestedQ(p, s)
              /\ instances[n].m.SHORTAGE_Q["SH"] = NestedQ(LastListing(s), s)

=============================================================================
